---- MODULE Spec2Model ----
(***************************************************************************)
(* Model of the holo-koji game server (src/unnamed/part_000, the third and *)
(* current generation of server/index.js, lines 1378-3773, together with   *)
(* src/utils/gameUtils.js lines 102-232).                                  *)
(*                                                                         *)
(* One room of the registry is modelled with its two seats.  Every         *)
(* handler is a pure operator on a context record                          *)
(*     [room, timers, out, rej, saved]                                     *)
(* (the GameRoom object, the setTimeout callbacks still pending, the       *)
(* frames written to the sockets while the handler ran, whether the        *)
(* handler left through one of its early returns, and whether it called    *)
(* persistRoomSnapshot); an action of the specification applies one whole  *)
(* handler, with everything it calls.                                      *)
(*                                                                         *)
(* Nine specifications share the variables:                                *)
(*   Spec        two clients play a game and send every kind of            *)
(*               GAME_ACTION; nobody leaves                                *)
(*   WinnerSpec  resolveRound at the end of a round, for every way the     *)
(*               geishas can be held                                       *)
(*   Lifecycle   rooms with or without the AI seat; clients leave, drop,   *)
(*               join again and confirm at any time                        *)
(*   GiftSpec    the AI's answer to a gift, for every tier, offer and      *)
(*               count of played cards                                     *)
(*   NpcGame     a room with the AI seat whose client stays; the timers    *)
(*               of the confirmations run when they are due                *)
(*   Rehydrate   the snapshot store is configured; the server is started   *)
(*               again and the clients join the room they were in          *)
(*   Interrupted two clients play; one leaves the room once, joins it      *)
(*               again, and the play goes on                               *)
(*   TierGame    a room with the AI seat at every tier; the AI plays what  *)
(*               buildNpcAction builds                                     *)
(*   Rematch     games with or without the AI seat in which the clients    *)
(*               ask for a rematch at any time                             *)
(***************************************************************************)
EXTENDS Integers, Sequences, FiniteSets, TLC

VARIABLES
    gameRooms,   \* the registry: roomId -> GameRoom
    timers,      \* the number of pending setTimeout callbacks, by callback
    io,          \* the frame (or timer) handled last and the frames it sent
    deviated,    \* the clients have departed from their first legal play
    conns,       \* by client: the closure variables of its connection
    awaiting,    \* the clients whose JOIN_ROOM is suspended at its await
    unregistered, \* the GameRoom deleted from the registry, with its timers
    roomStore    \* the snapshot store: whether REDIS_URL is set, and the
                 \* snapshot kept under the room's key

vars == <<gameRooms, timers, io, deviated, conns, awaiting, unregistered, roomStore>>

(***************************************************************************)
(* Bounds of the exploration.                                              *)
(***************************************************************************)
\* rounds of one game that are played (startNextRound is not explored beyond)
MaxRound == 2

\* the only room id the registry is explored with
\* the hidden cards of a game state are rotated by 0..MaxShift places, and the
\* opponent is given 0..MaxSecrets secret cards, to obtain the states that
\* differ from it in hidden information only
MaxShift == 2
MaxSecrets == 2

RoomId == "ROOM01"
\* client player ids
PlayerIds == {"p1", "p2"}
\* the results of shuffleArray that are explored (permutations of 1..21)
Shuffles ==
    { <<8, 20, 17, 15, 12, 14, 21, 7, 18, 19, 16, 9, 1, 10, 6, 4, 3, 2, 13, 5, 11>>,
      <<17, 6, 14, 18, 12, 16, 10, 11, 7, 5, 3, 9, 15, 20, 1, 13, 21, 8, 4, 19, 2>> }

(***************************************************************************)
(* Program constants.                                                      *)
(***************************************************************************)
charmPointsDistribution == <<2, 2, 2, 3, 3, 4, 5>>
ACTION_SEQUENCE == <<"secret", "trade-off", "gift", "competition">>
TokenTypes == {"secret", "trade-off", "gift", "competition"}
maxPlayers == 2
HandSize == 6
CharmToWin == 11
TokensToWin == 4

(***************************************************************************)
(* null values                                                             *)
(***************************************************************************)
NoCard == [id |-> 0, geishaId |-> 0]
NoPending == [type |-> "none", initiatorId |-> "none", targetPlayerId |-> "none",
              offeredCards |-> <<>>, groups |-> <<>>]
NoGameState == [phase |-> "null"]
NoSnapshot == [roomId |-> "none"]
NoResult == <<>>

(***************************************************************************)
(* Sequence helpers (the Array methods the code uses)                      *)
(***************************************************************************)
Range(s) == {s[i] : i \in DOMAIN s}

RECURSIVE SumSeq(_)
SumSeq(s) == IF s = <<>> THEN 0 ELSE Head(s) + SumSeq(Tail(s))

RECURSIVE Flat(_)
Flat(ss) == IF ss = <<>> THEN <<>> ELSE Head(ss) \o Flat(Tail(ss))

\* array.filter(pred)
Filter(s, Keep(_)) == SelectSeq(s, Keep)

\* the array a map() or a loop has built, element by element
Array(f) == f \o <<>>

\* array.findIndex(card => card.id === cardId), 0 when absent (the code's -1)
findIndexById(cards, cardId) ==
    IF \E i \in DOMAIN cards : cards[i].id = cardId
    THEN CHOOSE i \in DOMAIN cards :
            cards[i].id = cardId /\ \A j \in 1..(i - 1) : cards[j].id # cardId
    ELSE 0

\* array.splice(index, 1)
RemoveAt(s, i) == SubSeq(s, 1, i - 1) \o SubSeq(s, i + 1, Len(s))

CardIds(cards) == {cards[i].id : i \in DOMAIN cards}
RealIds(ids) == {x \in ids : x > 0}

(***************************************************************************)
(* gameUtils.js: geishas and deck                                          *)
(***************************************************************************)
\* a faulty variant: the charm of the seven geisha adds up to 22, an even
\* number, so the two players can hold 11 each
createBaseGeishas_evenCharm ==
    Array([i \in 1..Len(charmPointsDistribution) |->
        [id |-> i,
         charmPoints |-> IF i = 6 THEN charmPointsDistribution[i] + 1
                         ELSE charmPointsDistribution[i],
         controlledBy |-> "none"]])

createBaseGeishas ==
    Array([i \in 1..Len(charmPointsDistribution) |->
        [id |-> i, charmPoints |-> charmPointsDistribution[i], controlledBy |-> "none"]])

createRandomizedGeishas == createBaseGeishas

cloneGeishas(geishas) == Array([i \in DOMAIN geishas |-> geishas[i]])

\* `card-${geisha.id}-${copy}-...`: the id is unique by geisha and copy
CardIdOf(geishaId, copy) == geishaId * 10 + copy

RECURSIVE DeckCards(_)
DeckCards(geishas) ==
    IF geishas = <<>> THEN <<>>
    ELSE Array([copy \in 1..Head(geishas).charmPoints |->
            [id |-> CardIdOf(Head(geishas).id, copy - 1), geishaId |-> Head(geishas).id]])
         \o DeckCards(Tail(geishas))

\* shuffleArray(cards) for the permutation perm drawn by Math.random
shuffleArray(cards, perm) == Array([i \in DOMAIN cards |-> cards[perm[i]]])

buildDeckForGeishas(geishas, perm) ==
    LET shuffled == shuffleArray(DeckCards(geishas), perm)
    IN [deck |-> SubSeq(shuffled, 1, Len(shuffled) - 1),
        removedCard |-> IF shuffled = <<>> THEN NoCard ELSE shuffled[Len(shuffled)]]

\* the ids of the deck every round is built from
DeckIds == CardIds(DeckCards(createBaseGeishas))

(***************************************************************************)
(* Masked cards                                                            *)
(***************************************************************************)
PlayerNo(playerId) == IF playerId = "p1" THEN 1 ELSE IF playerId = "p2" THEN 2 ELSE 3
\* the prefixes `${id}-hand`, `${id}-discard`, `${id}-deal`, `draw-${id}`
HandPrefix(playerId) == PlayerNo(playerId) * 10 + 1
DiscardPrefix(playerId) == PlayerNo(playerId) * 10 + 2
DealPrefix(playerId) == PlayerNo(playerId) * 10 + 3
DrawPrefix(playerId) == PlayerNo(playerId) * 10 + 4

\* id `hidden-${prefix}-${index}` is encoded as a negative number
createMaskedCard(prefix, index) == [id |-> 0 - (prefix * 100 + index + 1), geishaId |-> 0]

createMaskedCards(count, prefix) ==
    Array([i \in 1..count |-> createMaskedCard(prefix, i - 1)])

(***************************************************************************)
(* Players and game states                                                 *)
(***************************************************************************)
createPlayer(playerId) ==
    [id |-> playerId,
     hand |-> <<>>, playedCards |-> <<>>, secretCards |-> <<>>, discardedCards |-> <<>>,
     actionTokens |-> [t \in TokenTypes |-> FALSE],
     score |-> [charm |-> 0, tokens |-> 0]]

createWaitingGameState(playerIds, geishas) ==
    [players |-> Array([i \in DOMAIN playerIds |-> createPlayer(playerIds[i])]),
     geishas |-> cloneGeishas(geishas),
     currentPlayer |-> 0,
     phase |-> "waiting",
     round |-> 1,
     winner |-> "none",
     drawPile |-> <<>>,
     discardPile |-> <<>>,
     removedCard |-> NoCard,
     pendingInteraction |-> NoPending]

\* previousState.players?.find(player => player.id === playerId)
FindPlayer(players, playerId) ==
    IF \E i \in DOMAIN players : players[i].id = playerId
    THEN CHOOSE i \in DOMAIN players :
            players[i].id = playerId /\ \A j \in 1..(i - 1) : players[j].id # playerId
    ELSE 0

createGameStateWithOrder(orderedPlayerIds, geishas, existingState) ==
    LET has == existingState.phase # "null"
        players == Array([i \in DOMAIN orderedPlayerIds |->
            LET k == IF has THEN FindPlayer(existingState.players, orderedPlayerIds[i]) ELSE 0
            IN IF k # 0 THEN existingState.players[k] ELSE createPlayer(orderedPlayerIds[i])])
    IN [players |-> players,
        geishas |-> cloneGeishas(geishas),
        currentPlayer |-> 0,
        phase |-> "playing",
        round |-> IF has THEN existingState.round ELSE 1,
        winner |-> "none",
        drawPile |-> IF has THEN existingState.drawPile ELSE <<>>,
        discardPile |-> IF has THEN existingState.discardPile ELSE <<>>,
        removedCard |-> IF has THEN existingState.removedCard ELSE NoCard,
        pendingInteraction |-> NoPending]

NewRoom ==
    [players |-> <<>>,
     gameState |-> NoGameState,
     hostId |-> "none",
     orderDecisionState |-> [isDeciding |-> FALSE, result |-> NoResult, confirmations |-> {}],
     baseGeishas |-> <<>>,
     dealSequence |-> <<>>,
     lastRoundStarterId |-> "none",
     readyConfirmations |-> {},
     rematchConfirmations |-> {},
     npcId |-> "none",
     npcDifficulty |-> "none"]

SeatIds(room) == Array([i \in DOMAIN room.players |-> room.players[i].playerId])

(***************************************************************************)
(* Contexts and frames                                                     *)
(***************************************************************************)
Ctx(room, tm) == [room |-> room, timers |-> tm, out |-> <<>>, rej |-> FALSE, saved |-> FALSE]

buildRoomSnapshot(room) ==
    [roomId |-> RoomId, hostId |-> room.hostId, npcId |-> room.npcId,
     npcDifficulty |-> room.npcDifficulty, baseGeishas |-> room.baseGeishas,
     gameState |-> room.gameState]

\* saveRoomSnapshot serialises the snapshot after its await, when the handler
\* has returned: saved tells that the room is written to the store then
persistRoomSnapshot(c) == [c EXCEPT !.saved = TRUE]

HasGame(c) == c.room.gameState.phase # "null"

\* the card ids that the rules hide from viewerId in game state gs
HiddenFrom(gs, viewerId) ==
    IF gs.phase = "null" THEN {}
    ELSE RealIds(
            CardIds(gs.drawPile) \cup {gs.removedCard.id}
            \cup UNION { CardIds(gs.players[i].hand)
                         \cup CardIds(gs.players[i].secretCards)
                         \cup CardIds(gs.players[i].discardedCards) :
                         i \in {j \in DOMAIN gs.players : gs.players[j].id # viewerId} })

\* a frame written to a socket: its addressee, its type, the real card ids its
\* payload carries and, when it carries any, the ids hidden from the addressee
\* at the time it is written
Frame(c, playerId, type, cards) ==
    [to |-> playerId, type |-> type, cards |-> RealIds(cards),
     hidden |-> IF RealIds(cards) = {} THEN {} ELSE HiddenFrom(c.room.gameState, playerId)]

SeatOf(room, playerId) ==
    IF \E i \in DOMAIN room.players : room.players[i].playerId = playerId
    THEN CHOOSE i \in DOMAIN room.players : room.players[i].playerId = playerId
    ELSE 0

sendToPlayer(c, playerId, type, cards) ==
    LET k == SeatOf(c.room, playerId)
    IN IF k = 0 THEN c
       ELSE IF c.room.players[k].ws # "open" THEN c
       ELSE [c EXCEPT !.out = Append(@, Frame(c, playerId, type, cards))]

sendError(c, playerId) == sendToPlayer(c, playerId, "ERROR", {})

\* an early return of a handler after sendError
Reject(c, playerId) == [sendError(c, playerId) EXCEPT !.rej = TRUE]

\* room.broadcast(message): the same payload to every seat
broadcast(c, type, cards) ==
    LET n == Len(c.room.players)
        F[i \in 0..n] ==
            IF i = 0 THEN c
            ELSE sendToPlayer(F[i - 1], c.room.players[i].playerId, type, cards)
    IN F[n]

(***************************************************************************)
(* Player View Masker                                                      *)
(***************************************************************************)
\* a faulty variant: the discarded cards of the opponent are not masked
buildClientGameState_discardedShown(gs, viewerId) ==
    [gs EXCEPT
        !.players = Array([i \in DOMAIN gs.players |->
            IF gs.players[i].id = viewerId THEN gs.players[i]
            ELSE [gs.players[i] EXCEPT
                    !.hand = createMaskedCards(Len(gs.players[i].hand),
                                               HandPrefix(gs.players[i].id)),
                    !.secretCards = <<>>]]),
        !.drawPile = <<>>,
        !.removedCard = NoCard]

buildClientGameState(gs, viewerId) ==
    [gs EXCEPT
        !.players = Array([i \in DOMAIN gs.players |->
            IF gs.players[i].id = viewerId THEN gs.players[i]
            ELSE [gs.players[i] EXCEPT
                    !.hand = createMaskedCards(Len(gs.players[i].hand),
                                               HandPrefix(gs.players[i].id)),
                    !.secretCards = <<>>,
                    !.discardedCards = createMaskedCards(Len(gs.players[i].discardedCards),
                                                         DiscardPrefix(gs.players[i].id))]]),
        !.drawPile = <<>>,
        !.removedCard = NoCard]

PendingCards(pending) ==
    CardIds(pending.offeredCards) \cup CardIds(Flat(pending.groups))

\* every card id found in a game state payload
StateCardIds(gs) ==
    CardIds(gs.drawPile) \cup CardIds(gs.discardPile) \cup {gs.removedCard.id}
    \cup PendingCards(gs.pendingInteraction)
    \cup UNION { CardIds(gs.players[i].hand) \cup CardIds(gs.players[i].playedCards)
                 \cup CardIds(gs.players[i].secretCards)
                 \cup CardIds(gs.players[i].discardedCards) : i \in DOMAIN gs.players }

\* a faulty variant: every step is sent as dealt
buildDealSequenceForPlayer_unmasked(dealSequence, playerId) == dealSequence

buildDealSequenceForPlayer(dealSequence, playerId) ==
    Array([i \in DOMAIN dealSequence |->
        IF dealSequence[i].playerId = playerId THEN dealSequence[i]
        ELSE [dealSequence[i] EXCEPT !.card = createMaskedCard(DealPrefix(playerId), i - 1)]])

DealCardIds(sequence) == {sequence[i].card.id : i \in DOMAIN sequence}

broadcastGameStateEvent(c, eventType) ==
    IF ~HasGame(c) THEN c
    ELSE LET n == Len(c.room.players)
             F[i \in 0..n] ==
                IF i = 0 THEN c
                ELSE LET pid == c.room.players[i].playerId
                     IN sendToPlayer(F[i - 1], pid, eventType,
                            StateCardIds(buildClientGameState(c.room.gameState, pid)))
         IN persistRoomSnapshot(F[n])

broadcastGameState(c) == broadcastGameStateEvent(c, "GAME_STATE_UPDATED")

\* the DEAL_ANIMATION frames of startGameWithOrder and startNextRound
sendDealAnimation(c) ==
    IF Len(c.room.dealSequence) = 0 THEN c
    ELSE LET n == Len(c.room.players)
             F[i \in 0..n] ==
                IF i = 0 THEN c
                ELSE LET pid == c.room.players[i].playerId
                     IN sendToPlayer(F[i - 1], pid, "DEAL_ANIMATION",
                            DealCardIds(buildDealSequenceForPlayer(c.room.dealSequence, pid)))
         IN F[n]

(***************************************************************************)
(* prepareRoundState                                                       *)
(***************************************************************************)
\* a faulty variant: the deal steps name the first seat six times, then the second
prepareRoundState_dealtInBlocks(c, orderedPlayerIds, roundNumber, openOrderDecision, perm) ==
    LET playerIds == IF orderedPlayerIds = <<>> THEN SeatIds(c.room) ELSE orderedPlayerIds
        n == Len(playerIds)
        base == IF c.room.baseGeishas = <<>> THEN createRandomizedGeishas
                ELSE c.room.baseGeishas
        geishasClone == cloneGeishas(base)
        built == buildDeckForGeishas(geishasClone, perm)
        \* the card dealt in pass rnd (0-based) to the player at index k (1-based)
        DealPos(rnd, k) == rnd * n + k
        dealt == IF HandSize * n <= Len(built.deck) THEN HandSize * n ELSE Len(built.deck)
        playersState == Array([k \in 1..n |->
            [createPlayer(playerIds[k]) EXCEPT
                !.hand = Array([r \in 1..Cardinality({q \in 0..(HandSize - 1) :
                                                        DealPos(q, k) <= dealt})
                                  |-> built.deck[DealPos(r - 1, k)]])]])
        dealSequence == Array([i \in 1..dealt |->
            [order |-> i - 1,
             playerId |-> playerIds[((i - 1) \div HandSize) + 1],
             card |-> built.deck[i]]])
        resolvedRound == IF roundNumber # 0 THEN roundNumber
                         ELSE IF HasGame(c) THEN c.room.gameState.round ELSE 1
    IN IF n < 2 THEN c
       ELSE [c EXCEPT
                !.room.baseGeishas = base,
                !.room.dealSequence = dealSequence,
                !.room.gameState =
                    [players |-> playersState,
                     geishas |-> geishasClone,
                     currentPlayer |-> 0,
                     phase |-> IF openOrderDecision THEN "deciding_order" ELSE "playing",
                     round |-> resolvedRound,
                     winner |-> "none",
                     drawPile |-> SubSeq(built.deck, dealt + 1, Len(built.deck)),
                     discardPile |-> <<>>,
                     removedCard |-> built.removedCard,
                     pendingInteraction |-> NoPending]]

\* orderedPlayerIds = <<>> and roundNumber = 0 stand for the defaults (null)
prepareRoundState(c, orderedPlayerIds, roundNumber, openOrderDecision, perm) ==
    LET playerIds == IF orderedPlayerIds = <<>> THEN SeatIds(c.room) ELSE orderedPlayerIds
        n == Len(playerIds)
        base == IF c.room.baseGeishas = <<>> THEN createRandomizedGeishas
                ELSE c.room.baseGeishas
        geishasClone == cloneGeishas(base)
        built == buildDeckForGeishas(geishasClone, perm)
        \* the card dealt in pass rnd (0-based) to the player at index k (1-based)
        DealPos(rnd, k) == rnd * n + k
        dealt == IF HandSize * n <= Len(built.deck) THEN HandSize * n ELSE Len(built.deck)
        playersState == Array([k \in 1..n |->
            [createPlayer(playerIds[k]) EXCEPT
                !.hand = Array([r \in 1..Cardinality({q \in 0..(HandSize - 1) :
                                                        DealPos(q, k) <= dealt})
                                  |-> built.deck[DealPos(r - 1, k)]])]])
        dealSequence == Array([i \in 1..dealt |->
            [order |-> i - 1,
             playerId |-> playerIds[((i - 1) % n) + 1],
             card |-> built.deck[i]]])
        resolvedRound == IF roundNumber # 0 THEN roundNumber
                         ELSE IF HasGame(c) THEN c.room.gameState.round ELSE 1
    IN IF n < 2 THEN c
       ELSE [c EXCEPT
                !.room.baseGeishas = base,
                !.room.dealSequence = dealSequence,
                !.room.gameState =
                    [players |-> playersState,
                     geishas |-> geishasClone,
                     currentPlayer |-> 0,
                     phase |-> IF openOrderDecision THEN "deciding_order" ELSE "playing",
                     round |-> resolvedRound,
                     winner |-> "none",
                     drawPile |-> SubSeq(built.deck, dealt + 1, Len(built.deck)),
                     discardPile |-> <<>>,
                     removedCard |-> built.removedCard,
                     pendingInteraction |-> NoPending]]

(***************************************************************************)
(* Timers (setTimeout callbacks that have not run yet)                     *)
(***************************************************************************)
TimerNames ==
    {"startOrderDecision", "decideOrder", "startReadyCheck", "roundResolveTimer",
     "npcConfirmOrder", "npcConfirmReady", "npcActionTimer", "npcResponseTimer"}

NoTimers == [t \in TimerNames |-> 0]

setTimeout(c, name) == [c EXCEPT !.timers[name] = @ + 1]

\* a timer kept in a handle: clearTimeout(handle) and then setTimeout
resetTimeout(c, name) == [c EXCEPT !.timers[name] = 1]

(***************************************************************************)
(* The AI seat's timers                                                    *)
(***************************************************************************)
isNpcPlayerId(c, playerId) == c.room.npcId # "none" /\ playerId = c.room.npcId

scheduleNpcTurn(c) ==
    IF ~HasGame(c) \/ c.room.npcId = "none" THEN c
    ELSE LET gs == c.room.gameState
             idx == gs.currentPlayer + 1
         IN IF idx > Len(gs.players) THEN c
            ELSE IF gs.players[idx].id # c.room.npcId THEN c
            ELSE IF gs.phase # "playing" \/ gs.pendingInteraction # NoPending THEN c
            ELSE resetTimeout(c, "npcActionTimer")

scheduleNpcResponse(c) ==
    IF ~HasGame(c) \/ c.room.npcId = "none" THEN c
    ELSE LET pending == c.room.gameState.pendingInteraction
         IN IF pending = NoPending THEN c
            ELSE IF pending.targetPlayerId # c.room.npcId THEN c
            ELSE resetTimeout(c, "npcResponseTimer")

(***************************************************************************)
(* Turn / round driver                                                     *)
(***************************************************************************)
HasUnusedToken(player) == \E t \in TokenTypes : ~player.actionTokens[t]

\* drawCardForPlayer followed by the CARD_DRAWN frames of beginTurnForCurrentPlayer
drawCardForPlayer(c, idx) ==
    LET gs == c.room.gameState
    IN IF Len(gs.drawPile) = 0 THEN c
       ELSE LET card == Head(gs.drawPile)
                c1 == [c EXCEPT !.room.gameState.drawPile = Tail(@),
                                !.room.gameState.players[idx].hand = Append(@, card)]
                cur == gs.players[idx].id
                n == Len(c.room.players)
                F[i \in 0..n] ==
                    IF i = 0 THEN c1
                    ELSE LET pid == c.room.players[i].playerId
                             visibleCard == IF pid = cur THEN card
                                            ELSE createMaskedCard(DrawPrefix(cur), 0)
                         IN sendToPlayer(F[i - 1], pid, "CARD_DRAWN", {visibleCard.id})
            IN F[n]

countCardsForGeisha(player, geishaId) ==
    Len(SelectSeq(player.playedCards, LAMBDA card : card.geishaId = geishaId))

\* the geishas after the comparison of resolveRound
\* a faulty variant: a tie takes the geisha away from its holder
resolveGeishas_tieClears(gs) ==
    Array([i \in DOMAIN gs.geishas |->
        LET geisha == gs.geishas[i]
            p1Count == countCardsForGeisha(gs.players[1], geisha.id)
            p2Count == countCardsForGeisha(gs.players[2], geisha.id)
        IN IF p1Count > p2Count THEN [geisha EXCEPT !.controlledBy = gs.players[1].id]
           ELSE IF p2Count > p1Count THEN [geisha EXCEPT !.controlledBy = gs.players[2].id]
           ELSE [geisha EXCEPT !.controlledBy = "none"]])

resolveGeishas(gs) ==
    Array([i \in DOMAIN gs.geishas |->
        LET geisha == gs.geishas[i]
            p1Count == countCardsForGeisha(gs.players[1], geisha.id)
            p2Count == countCardsForGeisha(gs.players[2], geisha.id)
        IN IF p1Count > p2Count THEN [geisha EXCEPT !.controlledBy = gs.players[1].id]
           ELSE IF p2Count > p1Count THEN [geisha EXCEPT !.controlledBy = gs.players[2].id]
           ELSE geisha])

ControlledCharm(geishas, playerId) ==
    SumSeq(Array([i \in DOMAIN geishas |->
              IF geishas[i].controlledBy = playerId THEN geishas[i].charmPoints ELSE 0]))

ControlledCount(geishas, playerId) ==
    Cardinality({i \in DOMAIN geishas : geishas[i].controlledBy = playerId})

\* a faulty variant: every player is credited with the first player's geisha
updatePlayerScores_firstPlayers(gs) ==
    [gs EXCEPT !.players = Array([i \in DOMAIN gs.players |->
        [gs.players[i] EXCEPT
            !.score = [tokens |-> ControlledCount(gs.geishas, gs.players[1].id),
                       charm |-> ControlledCharm(gs.geishas, gs.players[1].id)]]])]

updatePlayerScores(gs) ==
    [gs EXCEPT !.players = Array([i \in DOMAIN gs.players |->
        [gs.players[i] EXCEPT
            !.score = [tokens |-> ControlledCount(gs.geishas, gs.players[i].id),
                       charm |-> ControlledCharm(gs.geishas, gs.players[i].id)]]])]

\* a faulty variant: the number of geisha is looked at before the charm
determineWinner_tokensFirst(gs) ==
    LET playerA == gs.players[1]
        playerB == gs.players[2]
        aCharm == playerA.score.charm
        bCharm == playerB.score.charm
        aTokens == playerA.score.tokens
        bTokens == playerB.score.tokens
    IN IF aTokens >= TokensToWin \/ bTokens >= TokensToWin
       THEN (IF aTokens > bTokens THEN playerA.id
             ELSE IF bTokens > aTokens THEN playerB.id ELSE "none")
       ELSE IF aCharm >= CharmToWin \/ bCharm >= CharmToWin
       THEN (IF aCharm > bCharm THEN playerA.id
             ELSE IF bCharm > aCharm THEN playerB.id ELSE "none")
       ELSE "none"

determineWinner(gs) ==
    LET playerA == gs.players[1]
        playerB == gs.players[2]
        aCharm == playerA.score.charm
        bCharm == playerB.score.charm
        aTokens == playerA.score.tokens
        bTokens == playerB.score.tokens
    IN IF aCharm >= CharmToWin \/ bCharm >= CharmToWin
       THEN (IF aCharm > bCharm THEN playerA.id
             ELSE IF bCharm > aCharm THEN playerB.id ELSE "none")
       ELSE IF aTokens >= TokensToWin \/ bTokens >= TokensToWin
       THEN (IF aTokens > bTokens THEN playerA.id
             ELSE IF bTokens > aTokens THEN playerB.id ELSE "none")
       ELSE "none"

\* a faulty variant: the secret cards stay face-down and are not counted
revealSecrets_kept(gs) == gs

\* the secret cards of every player are pushed onto the played cards
revealSecrets(gs) ==
    [gs EXCEPT !.players = Array([i \in DOMAIN gs.players |->
        IF Len(gs.players[i].secretCards) > 0
        THEN [gs.players[i] EXCEPT !.playedCards = @ \o gs.players[i].secretCards,
                                   !.secretCards = <<>>]
        ELSE gs.players[i]])]

\* a faulty variant: the next round is scheduled even when there is a winner
resolveRound_nextRoundAnyway(c) ==
    IF ~HasGame(c) THEN c
    ELSE LET c1 == [c EXCEPT !.room.gameState.phase = "resolution"]
             c2 == broadcast(c1, "ROUND_COMPLETE", {})
             revealed == revealSecrets(c2.room.gameState)
             scored == updatePlayerScores([revealed EXCEPT !.geishas = resolveGeishas(revealed)])
             c3 == broadcastGameState([c2 EXCEPT !.room.gameState = scored])
             winner == determineWinner(scored)
         IN IF winner # "none"
            THEN LET c4 == [c3 EXCEPT !.room.gameState.phase = "ended",
                                      !.room.gameState.winner = winner]
                 IN resetTimeout(broadcastGameState(broadcast(c4, "GAME_ENDED", {})),
                                 "roundResolveTimer")
            ELSE resetTimeout(c3, "roundResolveTimer")

resolveRound(c) ==
    IF ~HasGame(c) THEN c
    ELSE LET c1 == [c EXCEPT !.room.gameState.phase = "resolution"]
             c2 == broadcast(c1, "ROUND_COMPLETE", {})
             revealed == revealSecrets(c2.room.gameState)
             scored == updatePlayerScores([revealed EXCEPT !.geishas = resolveGeishas(revealed)])
             c3 == broadcastGameState([c2 EXCEPT !.room.gameState = scored])
             winner == determineWinner(scored)
         IN IF winner # "none"
            THEN LET c4 == [c3 EXCEPT !.room.gameState.phase = "ended",
                                      !.room.gameState.winner = winner]
                 IN broadcastGameState(broadcast(c4, "GAME_ENDED", {}))
            ELSE resetTimeout(c3, "roundResolveTimer")

RECURSIVE beginTurnForCurrentPlayer(_)
RECURSIVE endTurn(_)

beginTurnForCurrentPlayer(c) ==
    IF ~HasGame(c) THEN c
    ELSE LET gs == c.room.gameState
             idx == gs.currentPlayer + 1
         IN IF idx > Len(gs.players) THEN c
            ELSE IF ~HasUnusedToken(gs.players[idx]) THEN endTurn(c)
            ELSE LET c1 == drawCardForPlayer(c, idx)
                     c2 == [c1 EXCEPT !.room.gameState.phase = "playing",
                                      !.room.gameState.pendingInteraction = NoPending]
                     c3 == broadcastGameState(c2)
                 IN IF isNpcPlayerId(c3, gs.players[idx].id) THEN scheduleNpcTurn(c3)
                    ELSE c3

\* a faulty variant: the search for the next seat starts at the current seat
endTurn_fromCurrentSeat(c) ==
    IF ~HasGame(c) THEN c
    ELSE LET gs == c.room.gameState
             n == Len(gs.players)
             candidates == {k \in 0..(n - 1) :
                               HasUnusedToken(gs.players[((gs.currentPlayer + k) % n) + 1])}
         IN IF ~\E i \in DOMAIN gs.players : HasUnusedToken(gs.players[i])
            THEN resolveRound(c)
            ELSE IF candidates # {}
            THEN LET k == CHOOSE k \in candidates : \A j \in candidates : k <= j
                 IN beginTurnForCurrentPlayer(
                        [c EXCEPT !.room.gameState.currentPlayer = (gs.currentPlayer + k) % n])
            ELSE broadcastGameState([c EXCEPT !.room.gameState.phase = "resolution"])

endTurn(c) ==
    IF ~HasGame(c) THEN c
    ELSE LET gs == c.room.gameState
             n == Len(gs.players)
             candidates == {k \in 1..n : HasUnusedToken(gs.players[((gs.currentPlayer + k) % n) + 1])}
         IN IF ~\E i \in DOMAIN gs.players : HasUnusedToken(gs.players[i])
            THEN resolveRound(c)
            ELSE IF candidates # {}
            THEN LET k == CHOOSE k \in candidates : \A j \in candidates : k <= j
                 IN beginTurnForCurrentPlayer(
                        [c EXCEPT !.room.gameState.currentPlayer = (gs.currentPlayer + k) % n])
            ELSE broadcastGameState([c EXCEPT !.room.gameState.phase = "resolution"])

\* a faulty variant: the starter of the last round starts again
getNextRoundOrder_sameStarter(room) ==
    LET currentPlayers == IF room.gameState.phase = "null" THEN <<>> ELSE room.gameState.players
    IN IF Len(currentPlayers) < 2 THEN <<>>
       ELSE LET currentStarter == IF room.lastRoundStarterId # "none"
                                  THEN room.lastRoundStarterId ELSE currentPlayers[1].id
                others == SelectSeq(currentPlayers, LAMBDA pl : pl.id # currentStarter)
                nextStarter == IF others # <<>> THEN others[1].id ELSE currentPlayers[1].id
            IN <<currentStarter, nextStarter>>

getNextRoundOrder(room) ==
    LET currentPlayers == IF room.gameState.phase = "null" THEN <<>> ELSE room.gameState.players
    IN IF Len(currentPlayers) < 2 THEN <<>>
       ELSE LET currentStarter == IF room.lastRoundStarterId # "none"
                                  THEN room.lastRoundStarterId ELSE currentPlayers[1].id
                others == SelectSeq(currentPlayers, LAMBDA pl : pl.id # currentStarter)
                nextStarter == IF others # <<>> THEN others[1].id ELSE currentPlayers[1].id
            IN <<nextStarter, currentStarter>>

startNextRound(c, perm) ==
    IF ~HasGame(c) THEN c
    ELSE LET nextOrder == getNextRoundOrder(c.room)
         IN IF Len(nextOrder) < 2 THEN c
            ELSE LET c1 == [c EXCEPT !.room.baseGeishas = cloneGeishas(c.room.gameState.geishas),
                                     !.room.lastRoundStarterId = nextOrder[1]]
                     c2 == prepareRoundState(c1, nextOrder, c.room.gameState.round + 1, FALSE, perm)
                 IN beginTurnForCurrentPlayer(broadcastGameState(sendDealAnimation(c2)))

(***************************************************************************)
(* Order decision and ready check                                          *)
(***************************************************************************)
validatePlayerInRoom(c, playerId) == SeatOf(c.room, playerId) # 0

startOrderDecision(c, perm) ==
    LET c1 == prepareRoundState(c, <<>>, 0, TRUE, perm)
        c2 == [c1 EXCEPT !.room.orderDecisionState.isDeciding = TRUE,
                         !.room.orderDecisionState.confirmations = {}]
        c3 == broadcast(c2, "ORDER_DECISION_START", {})
    IN setTimeout(broadcastGameState(c3), "decideOrder")

\* firstPlayerIndex is Math.random() < 0.5 ? 0 : 1
decideOrder(c, firstPlayerIndex) ==
    LET playerIds == SeatIds(c.room)
        At(i) == IF i + 1 \in DOMAIN playerIds THEN playerIds[i + 1] ELSE "undefined"
        order == <<At(firstPlayerIndex), At(1 - firstPlayerIndex)>>
        c1 == [c EXCEPT !.room.orderDecisionState.result = order]
        c2 == IF ~HasGame(c1) THEN c1
              ELSE LET old == c1.room.gameState.players
                       found == SelectSeq(order, LAMBDA id : FindPlayer(old, id) # 0)
                   IN [c1 EXCEPT
                        !.room.gameState.players =
                            Array([i \in DOMAIN found |-> old[FindPlayer(old, found[i])]]),
                        !.room.gameState.currentPlayer = 0]
        c3 == broadcastGameState(broadcast(c2, "ORDER_DECISION_RESULT", {}))
    IN IF c3.room.npcId # "none" THEN setTimeout(c3, "npcConfirmOrder") ELSE c3

confirmOrder(c, playerId) ==
    IF ~validatePlayerInRoom(c, playerId) THEN Reject(c, playerId)
    ELSE IF c.room.orderDecisionState.result = NoResult THEN Reject(c, playerId)
    ELSE LET c1 == [c EXCEPT !.room.orderDecisionState.confirmations = @ \cup {playerId}]
             c2 == broadcastGameState(broadcast(c1, "ORDER_CONFIRMATION_UPDATE", {}))
         IN IF Cardinality(c2.room.orderDecisionState.confirmations) = 2
            THEN setTimeout(c2, "startReadyCheck")
            ELSE c2

\* a faulty variant: the AI's ready confirmation is not scheduled
startReadyCheck_npcNotScheduled(c) ==
    IF ~HasGame(c) THEN c
    ELSE broadcast([c EXCEPT !.room.readyConfirmations = {}], "READY_CHECK", {})

startReadyCheck(c) ==
    IF ~HasGame(c) THEN c
    ELSE LET c1 == broadcast([c EXCEPT !.room.readyConfirmations = {}], "READY_CHECK", {})
         IN IF c1.room.npcId # "none" THEN setTimeout(c1, "npcConfirmReady") ELSE c1

startGameWithOrder(c) ==
    \* const { order } = this.orderDecisionState.result throws when result is null
    IF c.room.orderDecisionState.result = NoResult THEN [c EXCEPT !.rej = TRUE]
    ELSE LET order == c.room.orderDecisionState.result
             base == IF c.room.baseGeishas = <<>> THEN createRandomizedGeishas
                     ELSE c.room.baseGeishas
             c1 == [c EXCEPT
                      !.room.baseGeishas = base,
                      !.room.gameState = createGameStateWithOrder(order, base, c.room.gameState),
                      !.room.lastRoundStarterId = order[1]]
             c2 == sendDealAnimation(broadcastGameStateEvent(c1, "GAME_STARTED"))
             c3 == beginTurnForCurrentPlayer(c2)
         IN [c3 EXCEPT !.room.orderDecisionState =
                [isDeciding |-> FALSE, result |-> NoResult, confirmations |-> {}]]

confirmReady(c, playerId) ==
    IF ~validatePlayerInRoom(c, playerId) THEN Reject(c, playerId)
    ELSE LET c1 == [c EXCEPT !.room.readyConfirmations = @ \cup {playerId}]
             waitingFor == SelectSeq(SeatIds(c1.room),
                                     LAMBDA id : id \notin c1.room.readyConfirmations)
             c2 == broadcast(c1, "READY_STATUS", {})
         IN IF Len(waitingFor) = 0 THEN startGameWithOrder(c2) ELSE c2

(***************************************************************************)
(* Rule engine                                                             *)
(***************************************************************************)
getPlayerState(c, playerId) ==
    IF HasGame(c) THEN FindPlayer(c.room.gameState.players, playerId) ELSE 0

getOpponentId(c, playerId) ==
    LET others == SelectSeq(SeatIds(c.room), LAMBDA id : id # playerId)
    IN IF others = <<>> THEN "none" ELSE others[1]

markActionTokenUsed(c, idx, actionType) ==
    [c EXCEPT !.room.gameState.players[idx].actionTokens[actionType] = TRUE]

validatePlayerTurn(c, playerId) ==
    /\ HasGame(c)
    /\ c.room.gameState.currentPlayer + 1 \in DOMAIN c.room.gameState.players
    /\ c.room.gameState.players[c.room.gameState.currentPlayer + 1].id = playerId

\* a faulty variant: the used flag of the token is not looked at
validateActionAvailable_anyToken(player, actionType) ==
    actionType \in DOMAIN player.actionTokens

validateActionAvailable(player, actionType) ==
    actionType \in DOMAIN player.actionTokens /\ ~player.actionTokens[actionType]

validateCardOwnership(player, cardIds) ==
    /\ Cardinality(Range(cardIds)) = Len(cardIds)
    /\ \A i \in DOMAIN cardIds : cardIds[i] \in CardIds(player.hand)

isResolveAction(actionType) == actionType \in {"RESOLVE_GIFT", "RESOLVE_COMPETITION"}

\* a faulty variant: a pending interaction does not block the other actions
validatePendingInteraction_notBlocking(c, actionType) ==
    LET pending == c.room.gameState.pendingInteraction.type # "none"
    IN ~(~pending /\ isResolveAction(actionType))

validatePendingInteraction(c, actionType) ==
    LET pending == c.room.gameState.pendingInteraction.type # "none"
    IN /\ ~(pending /\ ~isResolveAction(actionType))
       /\ ~(~pending /\ isResolveAction(actionType))

\* cardIds.forEach: findIndex in the hand, splice it out, collect it
RECURSIVE extractCards(_, _, _)
extractCards(hand, cardIds, collected) ==
    IF cardIds = <<>> THEN [hand |-> hand, collected |-> collected]
    ELSE LET index == findIndexById(hand, Head(cardIds))
         IN IF index # 0
            THEN extractCards(RemoveAt(hand, index), Tail(cardIds), Append(collected, hand[index]))
            ELSE extractCards(hand, Tail(cardIds), collected)

\* the ACTION_EXECUTED frames: the card ids only for the actor
sendActionExecuted(c, actorId, cardIds) ==
    LET n == Len(c.room.players)
        F[i \in 0..n] ==
            IF i = 0 THEN c
            ELSE LET pid == c.room.players[i].playerId
                 IN sendToPlayer(F[i - 1], pid, "ACTION_EXECUTED",
                                 IF pid = actorId THEN cardIds ELSE {})
    IN F[n]

handlePlaySecret(c, idx, cardId) ==
    LET player == c.room.gameState.players[idx]
        cardIndex == findIndexById(player.hand, cardId)
    IN IF cardId = 0 THEN Reject(c, player.id)
       ELSE IF cardIndex = 0 THEN Reject(c, player.id)
       ELSE LET card == player.hand[cardIndex]
                c1 == [c EXCEPT !.room.gameState.players[idx].hand = RemoveAt(@, cardIndex),
                                !.room.gameState.players[idx].secretCards = Append(@, card)]
                c2 == markActionTokenUsed(c1, idx, "secret")
                c3 == sendActionExecuted(c2, player.id, {card.id})
            IN endTurn(broadcastGameState(c3))

\* a faulty variant: the ownership of the cards is not validated before the
\* cards are taken out of the hand
handleTradeOff_unvalidated(c, idx, cardIds) ==
    LET player == c.room.gameState.players[idx]
        ex == extractCards(player.hand, cardIds, <<>>)
    IN IF Len(cardIds) # 2 THEN Reject(c, player.id)
       ELSE IF Len(ex.collected) # 2
       THEN Reject([c EXCEPT !.room.gameState.players[idx].hand = ex.hand \o ex.collected],
                   player.id)
       ELSE LET c1 == [c EXCEPT !.room.gameState.players[idx].hand = ex.hand,
                                !.room.gameState.players[idx].discardedCards = @ \o ex.collected]
                c2 == markActionTokenUsed(c1, idx, "trade-off")
                c3 == sendActionExecuted(c2, player.id, Range(cardIds))
            IN endTurn(broadcastGameState(c3))

handleTradeOff(c, idx, cardIds) ==
    LET player == c.room.gameState.players[idx]
        ex == extractCards(player.hand, cardIds, <<>>)
    IN IF Len(cardIds) # 2 THEN Reject(c, player.id)
       ELSE IF ~validateCardOwnership(player, cardIds) THEN Reject(c, player.id)
       ELSE IF Len(ex.collected) # 2
       THEN Reject([c EXCEPT !.room.gameState.players[idx].hand = ex.hand \o ex.collected],
                   player.id)
       ELSE LET c1 == [c EXCEPT !.room.gameState.players[idx].hand = ex.hand,
                                !.room.gameState.players[idx].discardedCards = @ \o ex.collected]
                c2 == markActionTokenUsed(c1, idx, "trade-off")
                c3 == sendActionExecuted(c2, player.id, Range(cardIds))
            IN endTurn(broadcastGameState(c3))

\* a faulty variant: the turn passes on as soon as the gift is offered
handleInitiateGift_turnPassed(c, idx, cardIds) ==
    LET player == c.room.gameState.players[idx]
        opponentId == getOpponentId(c, player.id)
        ex == extractCards(player.hand, cardIds, <<>>)
    IN IF Len(cardIds) # 3 THEN Reject(c, player.id)
       ELSE IF ~validateCardOwnership(player, cardIds) THEN Reject(c, player.id)
       ELSE IF opponentId = "none" THEN Reject(c, player.id)
       ELSE IF Len(ex.collected) # 3
       THEN Reject([c EXCEPT !.room.gameState.players[idx].hand = ex.hand \o ex.collected],
                   player.id)
       ELSE LET c1 == [c EXCEPT !.room.gameState.players[idx].hand = ex.hand]
                c2 == markActionTokenUsed(c1, idx, "gift")
                c3 == [c2 EXCEPT !.room.gameState.pendingInteraction =
                          [type |-> "GIFT_SELECTION",
                           initiatorId |-> player.id,
                           targetPlayerId |-> opponentId,
                           offeredCards |-> ex.collected,
                           groups |-> <<>>],
                         !.room.gameState.currentPlayer = (@ + 1) % Len(c.room.gameState.players)]
                c4 == broadcast(c3, "PENDING_INTERACTION", CardIds(ex.collected))
                c5 == broadcastGameState(c4)
            IN IF isNpcPlayerId(c5, opponentId) THEN scheduleNpcResponse(c5) ELSE c5

handleInitiateGift(c, idx, cardIds) ==
    LET player == c.room.gameState.players[idx]
        opponentId == getOpponentId(c, player.id)
        ex == extractCards(player.hand, cardIds, <<>>)
    IN IF Len(cardIds) # 3 THEN Reject(c, player.id)
       ELSE IF ~validateCardOwnership(player, cardIds) THEN Reject(c, player.id)
       ELSE IF opponentId = "none" THEN Reject(c, player.id)
       ELSE IF Len(ex.collected) # 3
       THEN Reject([c EXCEPT !.room.gameState.players[idx].hand = ex.hand \o ex.collected],
                   player.id)
       ELSE LET c1 == [c EXCEPT !.room.gameState.players[idx].hand = ex.hand]
                c2 == markActionTokenUsed(c1, idx, "gift")
                c3 == [c2 EXCEPT !.room.gameState.pendingInteraction =
                          [type |-> "GIFT_SELECTION",
                           initiatorId |-> player.id,
                           targetPlayerId |-> opponentId,
                           offeredCards |-> ex.collected,
                           groups |-> <<>>]]
                c4 == broadcast(c3, "PENDING_INTERACTION", CardIds(ex.collected))
                c5 == broadcastGameState(c4)
            IN IF isNpcPlayerId(c5, opponentId) THEN scheduleNpcResponse(c5) ELSE c5

\* a faulty variant: the pending interaction is left in place
handleResolveGift_pendingKept(c, playerId, chosenCardId) ==
    LET pending == c.room.gameState.pendingInteraction
        chosenIndex == findIndexById(pending.offeredCards, chosenCardId)
        opponent == getPlayerState(c, pending.initiatorId)
        receiver == getPlayerState(c, playerId)
    IN IF pending.type # "GIFT_SELECTION" THEN Reject(c, playerId)
       ELSE IF pending.targetPlayerId # playerId THEN Reject(c, playerId)
       ELSE IF chosenIndex = 0 THEN Reject(c, playerId)
       ELSE IF opponent = 0 \/ receiver = 0 THEN Reject(c, playerId)
       ELSE LET chosenCard == pending.offeredCards[chosenIndex]
                remaining == SelectSeq(pending.offeredCards, LAMBDA card : card.id # chosenCardId)
                c1 == [c EXCEPT !.room.gameState.players[receiver].playedCards =
                                    Append(@, chosenCard)]
                c2 == [c1 EXCEPT !.room.gameState.players[opponent].playedCards = @ \o remaining]
                c3 == broadcast(c2, "INTERACTION_RESOLVED", {chosenCardId})
            IN broadcastGameState(c3)

\* a faulty variant: the chosen card also goes back to the initiator
handleResolveGift_chosenReturned(c, playerId, chosenCardId) ==
    LET pending == c.room.gameState.pendingInteraction
        chosenIndex == findIndexById(pending.offeredCards, chosenCardId)
        opponent == getPlayerState(c, pending.initiatorId)
        receiver == getPlayerState(c, playerId)
    IN IF pending.type # "GIFT_SELECTION" THEN Reject(c, playerId)
       ELSE IF pending.targetPlayerId # playerId THEN Reject(c, playerId)
       ELSE IF chosenIndex = 0 THEN Reject(c, playerId)
       ELSE IF opponent = 0 \/ receiver = 0 THEN Reject(c, playerId)
       ELSE LET chosenCard == pending.offeredCards[chosenIndex]
                c1 == [c EXCEPT !.room.gameState.players[receiver].playedCards =
                                    Append(@, chosenCard)]
                c2 == [c1 EXCEPT !.room.gameState.players[opponent].playedCards =
                                    @ \o pending.offeredCards,
                                 !.room.gameState.pendingInteraction = NoPending]
                c3 == broadcast(c2, "INTERACTION_RESOLVED", {chosenCardId})
            IN endTurn(broadcastGameState(c3))

handleResolveGift(c, playerId, chosenCardId) ==
    LET pending == c.room.gameState.pendingInteraction
        chosenIndex == findIndexById(pending.offeredCards, chosenCardId)
        opponent == getPlayerState(c, pending.initiatorId)
        receiver == getPlayerState(c, playerId)
    IN IF pending.type # "GIFT_SELECTION" THEN Reject(c, playerId)
       ELSE IF pending.targetPlayerId # playerId THEN Reject(c, playerId)
       ELSE IF chosenIndex = 0 THEN Reject(c, playerId)
       ELSE IF opponent = 0 \/ receiver = 0 THEN Reject(c, playerId)
       ELSE LET chosenCard == pending.offeredCards[chosenIndex]
                remaining == SelectSeq(pending.offeredCards, LAMBDA card : card.id # chosenCardId)
                c1 == [c EXCEPT !.room.gameState.players[receiver].playedCards =
                                    Append(@, chosenCard)]
                c2 == [c1 EXCEPT !.room.gameState.players[opponent].playedCards = @ \o remaining,
                                 !.room.gameState.pendingInteraction = NoPending]
                c3 == broadcast(c2, "INTERACTION_RESOLVED", {chosenCardId})
            IN endTurn(broadcastGameState(c3))

\* groups.map(group => group.map(cardId => extracted.find(...)).filter(Boolean))
groupCards(groups, extracted) ==
    Array([g \in DOMAIN groups |->
        LET ids == SelectSeq(groups[g], LAMBDA id : findIndexById(extracted, id) # 0)
        IN Array([k \in DOMAIN ids |-> extracted[findIndexById(extracted, ids[k])]])])

handleInitiateCompetition(c, idx, groups) ==
    LET player == c.room.gameState.players[idx]
        opponentId == getOpponentId(c, player.id)
        flattened == Flat(groups)
        ex == extractCards(player.hand, flattened, <<>>)
        groupedCards == groupCards(groups, ex.collected)
        rollback == [c EXCEPT !.room.gameState.players[idx].hand = ex.hand \o ex.collected]
    IN IF Len(groups) # 2 \/ \E g \in DOMAIN groups : Len(groups[g]) # 2
       THEN Reject(c, player.id)
       ELSE IF opponentId = "none" THEN Reject(c, player.id)
       ELSE IF ~validateCardOwnership(player, flattened) THEN Reject(c, player.id)
       ELSE IF Len(ex.collected) # 4 THEN Reject(rollback, player.id)
       ELSE IF \E g \in DOMAIN groupedCards : Len(groupedCards[g]) # 2
       THEN Reject(rollback, player.id)
       ELSE LET c1 == [c EXCEPT !.room.gameState.players[idx].hand = ex.hand]
                c2 == markActionTokenUsed(c1, idx, "competition")
                c3 == [c2 EXCEPT !.room.gameState.pendingInteraction =
                          [type |-> "COMPETITION_SELECTION",
                           initiatorId |-> player.id,
                           targetPlayerId |-> opponentId,
                           offeredCards |-> <<>>,
                           groups |-> groupedCards]]
                c4 == broadcast(c3, "PENDING_INTERACTION", CardIds(ex.collected))
                c5 == broadcastGameState(c4)
            IN IF isNpcPlayerId(c5, opponentId) THEN scheduleNpcResponse(c5) ELSE c5

\* A JSON value used as chosenGroupIndex: a number ([num |-> TRUE]) or a string
\* holding the decimal digits of val ([num |-> FALSE]).
\* pending.groups[chosenGroupIndex]: both 0 and "0" name the property "0"
groupAt(groups, index) == IF index.val + 1 \in DOMAIN groups THEN index.val + 1 ELSE 0

\* chosenGroupIndex === 0 ? 1 : 0   (strict equality: the string "0" is not 0)
\* a faulty variant: chosenGroupIndex === 1 ? 1 : 0
opponentGroupIndexOf_same(index) == IF index.num /\ index.val = 1 THEN 1 ELSE 0

opponentGroupIndexOf(index) == IF index.num /\ index.val = 0 THEN 1 ELSE 0

handleResolveCompetition(c, playerId, chosenGroupIndex) ==
    LET pending == c.room.gameState.pendingInteraction
        selected == groupAt(pending.groups, chosenGroupIndex)
        opponentGroupIndex == opponentGroupIndexOf(chosenGroupIndex)
        initiator == getPlayerState(c, pending.initiatorId)
        receiver == getPlayerState(c, playerId)
    IN IF pending.type # "COMPETITION_SELECTION" THEN Reject(c, playerId)
       ELSE IF pending.targetPlayerId # playerId THEN Reject(c, playerId)
       ELSE IF selected = 0 THEN Reject(c, playerId)
       ELSE IF initiator = 0 \/ receiver = 0 THEN Reject(c, playerId)
       ELSE LET selectedGroup == pending.groups[selected]
                opponentGroup == pending.groups[opponentGroupIndex + 1]
                c1 == [c EXCEPT !.room.gameState.players[receiver].playedCards =
                                    @ \o selectedGroup]
                c2 == [c1 EXCEPT !.room.gameState.players[initiator].playedCards =
                                    @ \o opponentGroup,
                                 !.room.gameState.pendingInteraction = NoPending]
                c3 == broadcast(c2, "INTERACTION_RESOLVED", {})
            IN endTurn(broadcastGameState(c3))

\* an action as it arrives in a GAME_ACTION frame; absent payload fields are
\* cardId = 0, cardIds = <<>>, groups = <<>>
NoIndex == [num |-> TRUE, val |-> 0 - 1]
Action(type, cardId, cardIds, groups, chosenGroupIndex) ==
    [type |-> type, cardId |-> cardId, cardIds |-> cardIds, groups |-> groups,
     chosenGroupIndex |-> chosenGroupIndex]

handleAction(c, playerId, action) ==
    LET idx == getPlayerState(c, playerId)
        player == c.room.gameState.players[idx]
        turnAndToken(token) ==
            validatePlayerTurn(c, playerId) /\ validateActionAvailable(player, token)
    IN IF ~HasGame(c) THEN Reject(c, playerId)
       ELSE IF ~validatePlayerInRoom(c, playerId) THEN Reject(c, playerId)
       ELSE IF idx = 0 THEN Reject(c, playerId)
       ELSE IF ~validatePendingInteraction(c, action.type) THEN Reject(c, playerId)
       ELSE IF c.room.gameState.phase # "playing" /\ ~isResolveAction(action.type)
       THEN Reject(c, playerId)
       ELSE CASE action.type = "PLAY_SECRET" ->
                    IF turnAndToken("secret") THEN handlePlaySecret(c, idx, action.cardId)
                    ELSE Reject(c, playerId)
              [] action.type = "PLAY_TRADE_OFF" ->
                    IF turnAndToken("trade-off") THEN handleTradeOff(c, idx, action.cardIds)
                    ELSE Reject(c, playerId)
              [] action.type = "INITIATE_GIFT" ->
                    IF turnAndToken("gift") THEN handleInitiateGift(c, idx, action.cardIds)
                    ELSE Reject(c, playerId)
              [] action.type = "RESOLVE_GIFT" ->
                    handleResolveGift(c, playerId, action.cardId)
              [] action.type = "INITIATE_COMPETITION" ->
                    IF turnAndToken("competition")
                    THEN handleInitiateCompetition(c, idx, action.groups)
                    ELSE Reject(c, playerId)
              [] action.type = "RESOLVE_COMPETITION" ->
                    handleResolveCompetition(c, playerId, action.chosenGroupIndex)
              \* default: console.warn only
              [] OTHER -> [c EXCEPT !.rej = TRUE]

\* handleGameAction of the connection of playerId
handleGameAction(c, playerId, action) ==
    IF action.type = "" THEN Reject(c, playerId)
    ELSE handleAction(c, playerId, action)

(***************************************************************************)
(* Room registry and connection front                                      *)
(***************************************************************************)
addPlayer(c, playerId) ==
    IF SeatOf(c.room, playerId) # 0
    THEN [result |-> "existing",
          c |-> persistRoomSnapshot(
                    [c EXCEPT !.room.players[SeatOf(c.room, playerId)].ws = "open"])]
    ELSE IF Len(c.room.players) >= maxPlayers THEN [result |-> "full", c |-> c]
    ELSE [result |-> "added",
          c |-> persistRoomSnapshot(
                    [c EXCEPT !.room.players = Append(@, [playerId |-> playerId, ws |-> "open"])])]

\* ws.send on the connection that sent the frame (playerId is its client)
wsSend(c, playerId, type, cards) ==
    [c EXCEPT !.out = Append(@, Frame(c, playerId, type, cards))]

\* the seat of the AI: its socket is a stub whose send() writes nothing
NpcLabel == "npc"

Difficulties == {"easy", "medium", "hard", "expert", "hell"}

normalizeNpcDifficulty(difficulty) ==
    IF difficulty \in Difficulties THEN difficulty ELSE "easy"

addNpcPlayer(c) ==
    IF c.room.npcId # "none" \/ Len(c.room.players) >= maxPlayers THEN c
    ELSE [c EXCEPT !.room.players = Append(@, [playerId |-> NpcLabel, ws |-> "stub"]),
                   !.room.npcId = NpcLabel,
                   !.room.npcDifficulty = normalizeNpcDifficulty("easy")]

Modes == {"online", "npc"}

handleCreateRoom(tm, playerId, mode) ==
    LET room0 == [NewRoom EXCEPT !.hostId = playerId, !.baseGeishas = createRandomizedGeishas]
        c0 == addPlayer(Ctx(room0, tm), playerId).c
        c1 == IF mode = "npc" THEN addNpcPlayer(c0) ELSE c0
        c2 == wsSend(c1, playerId, "ROOM_CREATED", {})
        c3 == [c2 EXCEPT !.room.gameState =
                  createWaitingGameState(SeatIds(c2.room), c2.room.baseGeishas)]
        c4 == persistRoomSnapshot(broadcastGameState(c3))
    IN IF Len(c4.room.players) = maxPlayers THEN setTimeout(c4, "startOrderDecision") ELSE c4

\* handleJoinRoom for a room found in memory
handleJoinRoom(c, playerId) ==
    LET c0 == IF c.room.baseGeishas = <<>>
              THEN [c EXCEPT !.room.baseGeishas = createRandomizedGeishas] ELSE c
        added == addPlayer(c0, playerId)
    IN IF added.result = "full"
       THEN [wsSend(added.c, playerId, "ERROR", {}) EXCEPT !.rej = TRUE]
       ELSE IF added.result = "existing"
       THEN (IF HasGame(added.c)
             THEN wsSend(added.c, playerId, "GAME_STATE_UPDATED",
                         StateCardIds(buildClientGameState(added.c.room.gameState, playerId)))
             ELSE added.c)
       ELSE LET c1 == wsSend(added.c, playerId, "PLAYER_JOINED", {})
                c2 == [c1 EXCEPT !.room.gameState =
                          createWaitingGameState(SeatIds(c1.room), c1.room.baseGeishas)]
                c3 == persistRoomSnapshot(broadcastGameState(c2))
            IN IF Len(c3.room.players) = maxPlayers
               THEN setTimeout(c3, "startOrderDecision") ELSE c3

(***************************************************************************)
(* Leaving a room                                                          *)
(***************************************************************************)
removePlayer(c, playerId) ==
    persistRoomSnapshot(
        [c EXCEPT !.room.players = SelectSeq(@, LAMBDA seat : seat.playerId # playerId)])

hasOnlyNpc(room) ==
    /\ Len(room.players) = 1
    /\ room.npcId # "none"
    /\ room.players[1].playerId = room.npcId

\* a faulty variant: only a room without any seat is deleted
handleLeaveRoom_emptyOnly(c, playerId) ==
    LET c1 == broadcast(removePlayer(c, playerId), "PLAYER_LEFT", {})
    IN [c |-> c1, deleted |-> Len(c1.room.players) = 0]

\* handleLeaveRoom on a connection whose currentRoomId names a registered
\* room; deleted tells whether gameRooms.delete(currentRoomId) and
\* deleteRoomSnapshot(currentRoomId) are called
handleLeaveRoom(c, playerId) ==
    LET c1 == broadcast(removePlayer(c, playerId), "PLAYER_LEFT", {})
    IN [c |-> c1, deleted |-> Len(c1.room.players) = 0 \/ hasOnlyNpc(c1.room)]

(***************************************************************************)
(* The AI seat's moves                                                     *)
(***************************************************************************)
\* the counts of played cards per geisha id that the AI's evaluation uses
buildGeishaCountSnapshot(gs, npcPlayer, opponentPlayer) ==
    [id \in {gs.geishas[i].id : i \in DOMAIN gs.geishas} |->
        LET geisha == gs.geishas[CHOOSE i \in DOMAIN gs.geishas : gs.geishas[i].id = id]
        IN [npc |-> Len(SelectSeq(npcPlayer.playedCards, LAMBDA card : card.geishaId = id)),
            opp |-> Len(SelectSeq(opponentPlayer.playedCards, LAMBDA card : card.geishaId = id)),
            charm |-> geisha.charmPoints]]

\* a faulty variant: the utility of a card is the charm of its geisha
getCardUtility_charmOnly(snapshot, geishaId, isNpc) ==
    IF geishaId \notin DOMAIN snapshot THEN 0
    ELSE snapshot[geishaId].charm

getCardUtility(snapshot, geishaId, isNpc) ==
    IF geishaId \notin DOMAIN snapshot THEN 0
    ELSE LET entry == snapshot[geishaId]
             myCount == IF isNpc THEN entry.npc ELSE entry.opp
             oppCount == IF isNpc THEN entry.opp ELSE entry.npc
             charm == entry.charm
         IN IF myCount + 1 > oppCount /\ myCount <= oppCount THEN charm * 4
            ELSE IF myCount + 1 = oppCount THEN charm * 2
            ELSE charm

\* entries.sort((a, b) => b.key - a.key): descending, equal keys keep their order
RECURSIVE SortDescending(_)
SortDescending(entries) ==
    IF entries = <<>> THEN <<>>
    ELSE LET first == Head(entries)
             rest == SortDescending(Tail(entries))
         IN SelectSeq(rest, LAMBDA e : e.key > first.key)
            \o <<first>>
            \o SelectSeq(rest, LAMBDA e : e.key <= first.key)

\* rnd is Math.floor(Math.random() * cards.length) + 1; NoCard stands for null
pickNpcGiftCard(room, cards, rnd) ==
    LET c == Ctx(room, NoTimers)
        npcPlayer == getPlayerState(c, room.npcId)
        opponentId == getOpponentId(c, room.npcId)
        opponent == IF opponentId = "none" THEN 0 ELSE getPlayerState(c, opponentId)
    IN IF Len(cards) = 0 THEN NoCard
       ELSE IF room.npcDifficulty = "easy" THEN cards[rnd]
       ELSE IF npcPlayer = 0 \/ opponent = 0 THEN cards[1]
       ELSE LET snapshot == buildGeishaCountSnapshot(room.gameState,
                                room.gameState.players[npcPlayer],
                                room.gameState.players[opponent])
                keyed == Array([i \in DOMAIN cards |->
                            [card |-> cards[i],
                             key |-> getCardUtility(snapshot, cards[i].geishaId, TRUE)]])
            IN SortDescending(keyed)[1].card

\* action is the result of buildNpcAction (NoAction stands for null)
performNpcAction(c, action) ==
    IF ~HasGame(c) \/ c.room.npcId = "none" THEN c
    ELSE LET gs == c.room.gameState
             idx == gs.currentPlayer + 1
         IN IF getPlayerState(c, c.room.npcId) = 0 \/ idx > Len(gs.players) THEN c
            ELSE IF gs.players[idx].id # c.room.npcId THEN c
            ELSE IF gs.pendingInteraction # NoPending \/ gs.phase # "playing" THEN c
            ELSE IF action.type = "none" THEN endTurn(c)
            ELSE handleAction(c, c.room.npcId, action)

\* action is the answer picked by pickNpcGiftCard or pickNpcCompetitionGroup
performNpcResponse(c, action) ==
    IF ~HasGame(c) \/ c.room.npcId = "none" THEN c
    ELSE LET pending == c.room.gameState.pendingInteraction
         IN IF pending = NoPending THEN c
            ELSE IF pending.targetPlayerId # c.room.npcId THEN c
            ELSE IF action.type = "none" THEN c
            ELSE handleAction(c, c.room.npcId, action)

(***************************************************************************)
(* The frames the clients send                                             *)
(***************************************************************************)
\* a card id no deck holds
ForeignId == CardIdOf(Len(charmPointsDistribution) + 1, 0)

\* the ids of n cards of the hand from position o + 1
Pick(hand, o, n) == Array([i \in 1..n |-> hand[o + i].id])

HandOf(room, playerId) ==
    LET k == IF room.gameState.phase = "null" THEN 0
             ELSE FindPlayer(room.gameState.players, playerId)
    IN IF k = 0 THEN <<>> ELSE room.gameState.players[k].hand

\* the offsets a client picks n cards of its hand from: the first n, the last n
Offsets(hand, n) == IF Len(hand) >= n THEN {0, Len(hand) - n} ELSE {}

Plays(hand) ==
    {Action("PLAY_SECRET", hand[o + 1].id, <<>>, <<>>, NoIndex) : o \in Offsets(hand, 1)}
    \cup {Action("PLAY_TRADE_OFF", 0, Pick(hand, o, 2), <<>>, NoIndex) : o \in Offsets(hand, 2)}
    \cup {Action("INITIATE_GIFT", 0, Pick(hand, o, 3), <<>>, NoIndex) : o \in Offsets(hand, 3)}
    \cup {Action("INITIATE_COMPETITION", 0, <<>>,
                 <<Pick(hand, o, 2), Pick(hand, o + 2, 2)>>, NoIndex) : o \in Offsets(hand, 4)}

\* plays the rule engine rejects whoever sends them
BadPlays(hand) ==
    {Action("", 0, <<>>, <<>>, NoIndex),
     Action("FOO", 0, <<>>, <<>>, NoIndex),
     Action("PLAY_SECRET", ForeignId, <<>>, <<>>, NoIndex)}
    \cup (IF Len(hand) >= 4
          THEN {Action("PLAY_TRADE_OFF", 0, <<hand[1].id, ForeignId>>, <<>>, NoIndex),
                Action("PLAY_TRADE_OFF", 0, <<hand[1].id, hand[1].id>>, <<>>, NoIndex),
                Action("INITIATE_GIFT", 0, Pick(hand, 0, 2), <<>>, NoIndex),
                Action("INITIATE_COMPETITION", 0, <<>>,
                       <<Pick(hand, 0, 3), Pick(hand, 3, 1)>>, NoIndex),
                Action("INITIATE_COMPETITION", 0, <<>>,
                       <<Pick(hand, 0, 2), <<hand[3].id, ForeignId>> >>, NoIndex)}
          ELSE {})

\* chosenGroupIndex as the number 0 or 1, or as the string "0" or "1"
Responses(pending) ==
    {Action("RESOLVE_GIFT", pending.offeredCards[i].id, <<>>, <<>>, NoIndex) :
        i \in DOMAIN pending.offeredCards}
    \cup {Action("RESOLVE_COMPETITION", 0, <<>>, <<>>, [num |-> b, val |-> v]) :
            b \in BOOLEAN, v \in {0, 1}}

BadResponses ==
    {Action("RESOLVE_GIFT", ForeignId, <<>>, <<>>, NoIndex),
     Action("RESOLVE_COMPETITION", 0, <<>>, <<>>, [num |-> TRUE, val |-> 2])}

TypeOfToken(t) ==
    CASE t = "secret" -> "PLAY_SECRET"
      [] t = "trade-off" -> "PLAY_TRADE_OFF"
      [] t = "gift" -> "INITIATE_GIFT"
      [] OTHER -> "INITIATE_COMPETITION"

\* the first play the rules allow the current player: its first unused token in
\* ACTION_SEQUENCE with the first cards of its hand
FirstPlay(room, playerId) ==
    LET gs == room.gameState
        k == FindPlayer(gs.players, playerId)
        hand == gs.players[k].hand
        unused == SelectSeq(ACTION_SEQUENCE, LAMBDA t : ~gs.players[k].actionTokens[t])
        type == TypeOfToken(unused[1])
    IN IF k = 0 THEN {}
       ELSE IF unused = <<>> THEN {}
       ELSE {a \in Plays(hand) :
                /\ a.type = type
                /\ a.cardId \in {0, hand[1].id}
                /\ a.cardIds = <<>> \/ a.cardIds[1] = hand[1].id
                /\ a.groups = <<>> \/ a.groups[1][1] = hand[1].id}

\* the first response the rules allow the target
FirstResponse(pending) ==
    IF pending.type = "GIFT_SELECTION"
    THEN {Action("RESOLVE_GIFT", pending.offeredCards[1].id, <<>>, <<>>, NoIndex)}
    ELSE IF pending.type = "COMPETITION_SELECTION"
    THEN {Action("RESOLVE_COMPETITION", 0, <<>>, <<>>, [num |-> TRUE, val |-> 0])}
    ELSE {}

\* what a well-behaved client that explores nothing sends next
DefaultInputs(room, playerId) ==
    IF room.gameState.phase # "playing" THEN {}
    ELSE IF room.gameState.pendingInteraction.type # "none"
    THEN (IF room.gameState.pendingInteraction.targetPlayerId = playerId
          THEN FirstResponse(room.gameState.pendingInteraction) ELSE {})
    ELSE IF validatePlayerTurn(Ctx(room, NoTimers), playerId)
    THEN FirstPlay(room, playerId)
    ELSE {}

\* the client the server waits for: the target of the pending interaction, or
\* the current player when none is pending
ToAct(room, playerId) ==
    /\ room.gameState.phase = "playing"
    /\ IF room.gameState.pendingInteraction.type # "none"
       THEN room.gameState.pendingInteraction.targetPlayerId = playerId
       ELSE validatePlayerTurn(Ctx(room, NoTimers), playerId)

\* what a client sends while the server waits for the other one: a play of each
\* type with the first cards of its hand, and an answer to what is pending
UntimelyInputs(room, playerId) ==
    LET hand == HandOf(room, playerId)
        pending == room.gameState.pendingInteraction
    IN {a \in Plays(hand) :
            /\ a.cardId \in {0, hand[1].id}
            /\ a.cardIds = <<>> \/ a.cardIds[1] = hand[1].id
            /\ a.groups = <<>> \/ a.groups[1][1] = hand[1].id}
       \cup FirstResponse(pending)
       \cup {Action("", 0, <<>>, <<>>, NoIndex), Action("FOO", 0, <<>>, <<>>, NoIndex)}

\* every GAME_ACTION a client is explored with
ActionInputs(room, playerId) ==
    IF room.gameState.phase = "null" THEN {}
    ELSE IF ToAct(room, playerId)
    THEN Plays(HandOf(room, playerId)) \cup BadPlays(HandOf(room, playerId))
         \cup Responses(room.gameState.pendingInteraction) \cup BadResponses
    ELSE UntimelyInputs(room, playerId)

(***************************************************************************)
(* Specification                                                           *)
(***************************************************************************)
\* no GAME_ACTION was carried out by the last step
NoAction == Action("none", 0, <<>>, <<>>, NoIndex)

NoIo == [from |-> "none", rej |-> FALSE, msg |-> NoAction, frames |-> <<>>]

HasRoom == RoomId \in DOMAIN gameRooms
Room == gameRooms[RoomId]

\* REDIS_URL is not set
NoStore == [enabled |-> FALSE, snapshot |-> NoSnapshot]

\* the store after a handler: persistRoomSnapshot writes when isRedisEnabled()
Stored(c) ==
    IF roomStore.enabled /\ c.saved
    THEN [roomStore EXCEPT !.snapshot = buildRoomSnapshot(c.room)]
    ELSE roomStore

\* the state after a handler has run for a frame of `from` (or for a timer):
\* io keeps the sender, whether the handler turned the frame down, the
\* GAME_ACTION it carried out (NoAction when it carried out none) and the
\* frames it wrote
Commit(c, from, action) ==
    /\ gameRooms' = (RoomId :> c.room)
    /\ timers' = c.timers
    /\ roomStore' = Stored(c)
    /\ io' = [from |-> from, rej |-> c.rej,
              msg |-> IF c.rej THEN NoAction ELSE action, frames |-> c.out]

\* a connection: whether currentRoomId and currentPlayerId are set, the
\* number of times the client has left a room (LEAVE_ROOM or close), and the
\* number of REMATCH_REQUEST frames it has sent
NoConn == [bound |-> FALSE, left |-> 0, asked |-> 0]

\* no GameRoom has been deleted from the registry
NoRoom == [room |-> NewRoom, timers |-> NoTimers, deleted |-> FALSE]

\* currentPlayerId = playerId; currentRoomId = roomId
Bind(playerId) == conns' = [conns EXCEPT ![playerId].bound = TRUE]

\* a handler that is no play of a client and sets no closure variable
Handled(c, from) ==
    /\ Commit(c, from, NoAction)
    /\ UNCHANGED <<deviated, conns, awaiting, unregistered>>

Init ==
    /\ gameRooms = <<>>
    /\ timers = NoTimers
    /\ io = NoIo
    /\ deviated = FALSE
    /\ conns = [p \in PlayerIds |-> NoConn]
    /\ awaiting = {}
    /\ unregistered = NoRoom
    /\ roomStore = NoStore

HostId == "p1"

CreateRoom ==
    /\ ~HasRoom
    /\ ~unregistered.deleted
    /\ roomStore.snapshot = NoSnapshot
    /\ Commit(handleCreateRoom(timers, HostId, "online"), HostId, NoAction)
    /\ Bind(HostId)
    /\ UNCHANGED <<deviated, awaiting, unregistered>>

JoinRoom ==
    /\ HasRoom
    /\ \E p \in PlayerIds :
        /\ timers["startOrderDecision"] = 0 \/ SeatOf(Room, p) # 0
        /\ LET c == handleJoinRoom(Ctx(Room, timers), p)
           IN /\ Commit(c, p, NoAction)
              /\ IF c.rej THEN UNCHANGED conns ELSE Bind(p)
        /\ UNCHANGED <<deviated, awaiting, unregistered>>

FireTimer(name) ==
    /\ HasRoom
    /\ timers[name] > 0

Fired(name) == Ctx(Room, [timers EXCEPT ![name] = @ - 1])

TimerStartOrderDecision ==
    /\ FireTimer("startOrderDecision")
    /\ \E perm \in Shuffles :
        Handled(startOrderDecision(Fired("startOrderDecision"), perm), "timer")

TimerDecideOrder ==
    /\ FireTimer("decideOrder")
    /\ \E firstPlayerIndex \in {0, 1} :
        Handled(decideOrder(Fired("decideOrder"), firstPlayerIndex), "timer")

TimerStartReadyCheck ==
    /\ FireTimer("startReadyCheck")
    /\ Handled(startReadyCheck(Fired("startReadyCheck")), "timer")

TimerStartNextRound ==
    /\ FireTimer("roundResolveTimer")
    /\ Room.gameState.round < MaxRound
    /\ \E perm \in Shuffles :
        Handled(startNextRound(Fired("roundResolveTimer"), perm), "timer")

\* CONFIRM_ORDER from a seated client that has seen the result and not confirmed yet
ConfirmOrder ==
    /\ HasRoom
    /\ \E p \in PlayerIds :
        /\ SeatOf(Room, p) # 0
        /\ Room.orderDecisionState.result # NoResult
        /\ p \notin Room.orderDecisionState.confirmations
        /\ Handled(confirmOrder(Ctx(Room, timers), p), p)

\* READY_CONFIRM from a seated client in answer to READY_CHECK
ReadyConfirm ==
    /\ HasRoom
    /\ \E p \in PlayerIds :
        /\ SeatOf(Room, p) # 0
        /\ Room.gameState.phase = "deciding_order"
        /\ Cardinality(Room.orderDecisionState.confirmations) = 2
        /\ timers["startReadyCheck"] = 0
        /\ p \notin Room.readyConfirmations
        /\ Handled(confirmReady(Ctx(Room, timers), p), p)

\* the play is none of the first legal plays, and the handler carried it out
Alternative(c, inputs, action) == ~c.rej /\ action \notin inputs

\* the handler has run: the play may depart from the first legal plays once
Played(c, p, action, alternative) ==
    /\ alternative => ~deviated
    /\ Commit(c, p, action)
    /\ deviated' = (deviated \/ alternative)
    /\ UNCHANGED <<conns, awaiting, unregistered>>

PlayedBy(c, p, action) ==
    Played(c, p, action, Alternative(c, DefaultInputs(Room, p), action))

GameAction ==
    /\ HasRoom
    /\ \E p \in PlayerIds :
        /\ SeatOf(Room, p) # 0
        /\ \E action \in ActionInputs(Room, p) :
            PlayedBy(handleGameAction(Ctx(Room, timers), p, action), p, action)

\* a frame that JSON.parse rejects, or one with an unknown message type: the
\* handler only logs
BadFrame ==
    /\ HasRoom
    /\ \E p \in PlayerIds :
        /\ SeatOf(Room, p) # 0
        /\ Handled([Ctx(Room, timers) EXCEPT !.rej = TRUE], p)

Next ==
    \/ CreateRoom
    \/ JoinRoom
    \/ TimerStartOrderDecision
    \/ TimerDecideOrder
    \/ TimerStartReadyCheck
    \/ TimerStartNextRound
    \/ ConfirmOrder
    \/ ReadyConfirm
    \/ GameAction
    \/ BadFrame

Spec == Init /\ [][Next]_vars

(***************************************************************************)
(* Lifecycle: rooms with an AI seat, clients that leave, drop and join     *)
(* again, a JOIN_ROOM that waits for the snapshot store, and clients that  *)
(* confirm at any time.  The clients play their first legal play.          *)
(***************************************************************************)
\* the number of times the clients leave (LEAVE_ROOM or close) in one run
MaxLeaves == 1

Leaves == Cardinality({x \in PlayerIds \X (1..MaxLeaves) : x[2] <= conns[x[1]].left})

\* the actions buildNpcAction picks from at the easy tier; {} stands for null
buildNpcAction(room) ==
    LET c == Ctx(room, NoTimers)
        k == getPlayerState(c, room.npcId)
        opponentId == getOpponentId(c, room.npcId)
        player == room.gameState.players[k]
    IN IF k = 0 THEN {}
       ELSE IF opponentId = "none" THEN {}
       ELSE IF getPlayerState(c, opponentId) = 0 THEN {}
       ELSE {a \in Plays(player.hand) :
                \E t \in TokenTypes : ~player.actionTokens[t] /\ a.type = TypeOfToken(t)}

\* performNpcAction gets as far as buildNpcAction
NpcToPlay(room) ==
    /\ room.gameState.phase = "playing"
    /\ room.npcId # "none"
    /\ room.gameState.pendingInteraction = NoPending
    /\ room.gameState.currentPlayer + 1 <= Len(room.gameState.players)
    /\ room.gameState.players[room.gameState.currentPlayer + 1].id = room.npcId

\* the results of buildNpcAction that are explored
NpcActionInputs(room) ==
    IF ~NpcToPlay(room) THEN {NoAction}
    ELSE IF buildNpcAction(room) = {} THEN {NoAction}
    ELSE buildNpcAction(room)

\* the results of pickNpcGiftCard, and of pickNpcCompetitionGroup at the easy tier
NpcResponseInputs(room) ==
    IF room.gameState.phase = "null" \/ room.npcId = "none" THEN {NoAction}
    ELSE LET pending == room.gameState.pendingInteraction
         IN IF pending.targetPlayerId # room.npcId THEN {NoAction}
            ELSE IF pending.type = "GIFT_SELECTION"
            THEN {Action("RESOLVE_GIFT", pickNpcGiftCard(room, pending.offeredCards, rnd).id,
                         <<>>, <<>>, NoIndex) : rnd \in DOMAIN pending.offeredCards}
            ELSE IF pending.type = "COMPETITION_SELECTION"
            THEN {a \in Responses(pending) :
                     a.type = "RESOLVE_COMPETITION" /\ a.chosenGroupIndex.num}
            ELSE {NoAction}

\* the first of the AI's possible moves; any other one is explored once a run
NpcDefault(room, inputs) ==
    IF inputs = {NoAction} THEN inputs
    ELSE IF room.gameState.pendingInteraction.type # "none"
    THEN FirstResponse(room.gameState.pendingInteraction)
    ELSE FirstPlay(room, room.npcId)

\* no client has left and no JOIN_ROOM waits for the store
Quiet == Leaves = 0 /\ awaiting = {}

CreateNpcRoom ==
    /\ ~HasRoom
    /\ ~unregistered.deleted
    /\ roomStore.snapshot = NoSnapshot
    /\ Commit(handleCreateRoom(timers, HostId, "npc"), HostId, NoAction)
    /\ Bind(HostId)
    /\ UNCHANGED <<deviated, awaiting, unregistered>>

\* JOIN_ROOM for a room id the registry does not hold: the handler waits for
\* loadRoomSnapshot
JoinSuspend ==
    /\ ~HasRoom
    /\ ~unregistered.deleted
    /\ \E p \in PlayerIds :
        /\ p \notin awaiting
        /\ awaiting' = awaiting \cup {p}
        /\ io' = [NoIo EXCEPT !.from = p]
    /\ UNCHANGED <<gameRooms, timers, deviated, conns, unregistered, roomStore>>

\* JOIN_ROOM of a client that has lost its connection, for the room id it was
\* in, which the registry does not hold: the handler waits for loadRoomSnapshot
Rejoin ==
    /\ ~HasRoom
    /\ \E p \in PlayerIds :
        /\ conns[p].left > 0
        /\ p \notin awaiting
        /\ awaiting' = awaiting \cup {p}
        /\ io' = [NoIo EXCEPT !.from = p]
    /\ UNCHANGED <<gameRooms, timers, deviated, conns, unregistered, roomStore>>

\* the key of the room in the store, parsed (null when REDIS_URL is not set
\* or the key does not exist)
loadRoomSnapshot == IF roomStore.enabled THEN roomStore.snapshot ELSE NoSnapshot

\* a new GameRoom with the fields of the snapshot and the AI's seat
restoreRoomFromSnapshot(snapshot) ==
    [NewRoom EXCEPT
        !.hostId = snapshot.hostId,
        !.npcId = snapshot.npcId,
        !.npcDifficulty = snapshot.npcDifficulty,
        !.baseGeishas = snapshot.baseGeishas,
        !.gameState = snapshot.gameState,
        !.players = IF snapshot.npcId # "none"
                    THEN <<[playerId |-> snapshot.npcId, ws |-> "stub"]>> ELSE <<>>]

\* handleJoinRoom after its await: the handler still holds the registry miss.
\* With no snapshot it answers with an ERROR; with one it registers the
\* restored room (in place of a room registered in the meantime, which its
\* timers keep alive) and goes on with it
JoinResume ==
    \E p \in awaiting :
        /\ awaiting' = awaiting \ {p}
        /\ IF loadRoomSnapshot = NoSnapshot
           THEN /\ io' = [from |-> p, rej |-> TRUE, msg |-> NoAction,
                          frames |-> <<[to |-> p, type |-> "ERROR", cards |-> {},
                                        hidden |-> {}]>>]
                /\ UNCHANGED <<gameRooms, timers, conns, unregistered, roomStore>>
           ELSE LET room == restoreRoomFromSnapshot(loadRoomSnapshot)
                    c == handleJoinRoom(Ctx(room, NoTimers), p)
                IN /\ Commit(c, p, NoAction)
                   /\ IF c.rej THEN UNCHANGED conns ELSE Bind(p)
                   /\ unregistered' =
                         IF HasRoom
                         THEN [room |-> Room, timers |-> timers, deleted |-> TRUE]
                         ELSE unregistered
        /\ UNCHANGED deviated

\* the server process is started again, once: the registry, the timers and
\* the connections of the old process are gone, the store is not
Restart ==
    /\ HasRoom
    /\ roomStore.enabled
    /\ Quiet
    /\ gameRooms' = <<>>
    /\ timers' = NoTimers
    /\ unregistered' = NoRoom
    /\ conns' = [p \in PlayerIds |->
                    IF conns[p].bound
                    THEN [conns[p] EXCEPT !.bound = FALSE, !.left = @ + 1]
                    ELSE conns[p]]
    /\ io' = [NoIo EXCEPT !.from = "restart"]
    /\ UNCHANGED <<deviated, awaiting, roomStore>>

\* handleLeaveRoom on the connection of p; closing tells LEAVE_ROOM from close
Leave(p, closing) ==
    /\ conns[p].bound
    /\ conns' = [conns EXCEPT ![p].bound = ~closing, ![p].left = @ + 1]
    /\ IF HasRoom
       THEN LET r == handleLeaveRoom(Ctx(Room, timers), p)
            IN IF r.deleted
               THEN /\ gameRooms' = <<>>
                    /\ timers' = NoTimers
                    /\ roomStore' = [roomStore EXCEPT !.snapshot = NoSnapshot]
                    /\ unregistered' = [room |-> r.c.room, timers |-> r.c.timers,
                                        deleted |-> TRUE]
                    /\ io' = [from |-> p, rej |-> FALSE, msg |-> NoAction,
                              frames |-> r.c.out]
               ELSE /\ Commit(r.c, p, NoAction)
                    /\ UNCHANGED unregistered
       ELSE /\ io' = [NoIo EXCEPT !.from = p]
            /\ UNCHANGED <<gameRooms, timers, unregistered, roomStore>>
    /\ UNCHANGED <<deviated, awaiting>>

\* LEAVE_ROOM while no JOIN_ROOM waits for the store
LeaveRoom ==
    /\ Leaves < MaxLeaves
    /\ awaiting = {}
    /\ \E p \in PlayerIds : Leave(p, FALSE)

\* the close event of a connection while no JOIN_ROOM waits for the store
Close ==
    /\ Leaves < MaxLeaves
    /\ awaiting = {}
    /\ \E p \in PlayerIds : Leave(p, TRUE)

\* JOIN_ROOM of a client that has no seat: one that has not joined yet, one
\* that has left, or one on a new connection after its connection was closed
Join ==
    /\ HasRoom
    /\ \E p \in PlayerIds :
        /\ SeatOf(Room, p) = 0
        /\ p \notin awaiting
        /\ LET c == handleJoinRoom(Ctx(Room, timers), p)
           IN /\ Commit(c, p, NoAction)
              /\ IF c.rej THEN UNCHANGED conns ELSE Bind(p)
        /\ UNCHANGED <<deviated, awaiting, unregistered>>

\* CONFIRM_ORDER on a bound connection while no game is being played, as long
\* as no client has left
ConfirmOrderAnyTime ==
    /\ HasRoom
    /\ Quiet
    /\ \E p \in PlayerIds :
        /\ conns[p].bound
        /\ Room.gameState.phase \in {"waiting", "deciding_order", "ended"}
        /\ p \notin Room.orderDecisionState.confirmations
        /\ Handled(confirmOrder(Ctx(Room, timers), p), p)

\* READY_CONFIRM on a bound connection while no game is being played, as long
\* as no client has left
ReadyConfirmAnyTime ==
    /\ HasRoom
    /\ Quiet
    /\ \E p \in PlayerIds :
        /\ conns[p].bound
        /\ Room.gameState.phase \in {"waiting", "deciding_order"}
        /\ p \notin Room.readyConfirmations
        /\ Handled(confirmReady(Ctx(Room, timers), p), p)

\* GAME_ACTION on a bound connection: the client's first legal play, as long
\* as no client has left
DefaultAction ==
    /\ HasRoom
    /\ Quiet
    /\ \E p \in PlayerIds :
        /\ conns[p].bound
        /\ \E action \in DefaultInputs(Room, p) :
            /\ Commit(handleGameAction(Ctx(Room, timers), p, action), p, action)
            /\ UNCHANGED <<deviated, conns, awaiting, unregistered>>

\* GAME_ACTION on a bound connection after the game has ended
ActionAfterEnd ==
    /\ HasRoom
    /\ Quiet
    /\ Room.gameState.phase = "ended"
    /\ \E p \in PlayerIds :
        /\ conns[p].bound
        /\ \E action \in UntimelyInputs(Room, p) :
            /\ Commit(handleGameAction(Ctx(Room, timers), p, action), p, action)
            /\ UNCHANGED <<deviated, conns, awaiting, unregistered>>

TimerNpcConfirmOrder ==
    /\ FireTimer("npcConfirmOrder")
    /\ Handled(confirmOrder(Fired("npcConfirmOrder"), Room.npcId), "timer")

TimerNpcConfirmReady ==
    /\ FireTimer("npcConfirmReady")
    /\ Handled(confirmReady(Fired("npcConfirmReady"), Room.npcId), "timer")

\* an AI move the model explores: the first one, or once a run another one
NpcMoves(room, inputs, moved) ==
    {a \in inputs : a \in NpcDefault(room, inputs) \/ ~moved}

TimerNpcAction ==
    /\ FireTimer("npcActionTimer")
    /\ \E action \in NpcMoves(Room, NpcActionInputs(Room), deviated) :
        /\ Commit(performNpcAction(Fired("npcActionTimer"), action), "timer", action)
        /\ deviated' = (deviated \/ action \notin NpcDefault(Room, NpcActionInputs(Room)))
        /\ UNCHANGED <<conns, awaiting, unregistered>>

TimerNpcResponse ==
    /\ FireTimer("npcResponseTimer")
    /\ \E action \in NpcMoves(Room, NpcResponseInputs(Room), deviated) :
        /\ Commit(performNpcResponse(Fired("npcResponseTimer"), action), "timer", action)
        /\ deviated' = (deviated \/ action \notin NpcDefault(Room, NpcResponseInputs(Room)))
        /\ UNCHANGED <<conns, awaiting, unregistered>>

\* the callback of timer name of a GameRoom, with the random results it draws
RunTimer(name, c, perm, firstPlayerIndex, action) ==
    CASE name = "startOrderDecision" -> startOrderDecision(c, perm)
      [] name = "decideOrder" -> decideOrder(c, firstPlayerIndex)
      [] name = "startReadyCheck" -> startReadyCheck(c)
      [] name = "roundResolveTimer" -> startNextRound(c, perm)
      [] name = "npcConfirmOrder" -> confirmOrder(c, c.room.npcId)
      [] name = "npcConfirmReady" -> confirmReady(c, c.room.npcId)
      [] name = "npcActionTimer" -> performNpcAction(c, action)
      [] OTHER -> performNpcResponse(c, action)

\* the first of the explored shuffles
FirstShuffle == CHOOSE perm \in Shuffles : perm[1] = 8

\* the play the AI's timer of the deleted room makes
DeletedRoomAction(room, name) ==
    CHOOSE a \in NpcDefault(room, IF name = "npcActionTimer" THEN NpcActionInputs(room)
                                  ELSE IF name = "npcResponseTimer" THEN NpcResponseInputs(room)
                                  ELSE {NoAction}) : TRUE

\* the callback has run on the room the registry no longer holds
DeletedRoomRan(c) ==
    /\ unregistered' = [unregistered EXCEPT !.room = c.room, !.timers = c.timers]
    /\ roomStore' = Stored(c)
    /\ io' = [from |-> "timer", rej |-> c.rej, msg |-> NoAction, frames |-> c.out]

\* a timer of the GameRoom that was deleted from the registry: its callback
\* still holds the room
TimerOfDeletedRoom ==
    /\ unregistered.deleted
    /\ \E name \in TimerNames :
        /\ unregistered.timers[name] > 0
        /\ name = "roundResolveTimer" => unregistered.room.gameState.round < MaxRound
        /\ DeletedRoomRan(RunTimer(name,
                Ctx(unregistered.room, [unregistered.timers EXCEPT ![name] = @ - 1]),
                FirstShuffle, 0, DeletedRoomAction(unregistered.room, name)))
    /\ UNCHANGED <<gameRooms, timers, deviated, conns, awaiting>>

LifecycleNext ==
    \/ CreateRoom
    \/ CreateNpcRoom
    \/ JoinSuspend
    \/ JoinResume
    \/ Join
    \/ LeaveRoom
    \/ Close
    \/ TimerStartOrderDecision
    \/ TimerDecideOrder
    \/ TimerStartReadyCheck
    \/ TimerStartNextRound
    \/ TimerNpcConfirmOrder
    \/ TimerNpcConfirmReady
    \/ TimerNpcAction
    \/ TimerNpcResponse
    \/ TimerOfDeletedRoom
    \/ ConfirmOrderAnyTime
    \/ ReadyConfirmAnyTime
    \/ DefaultAction
    \/ ActionAfterEnd

Lifecycle == Init /\ [][LifecycleNext]_vars

(***************************************************************************)
(* Properties: vocabulary                                                  *)
(***************************************************************************)
\* the room holds a game state (before and after a step: InGame and InGame')
InGame == HasRoom /\ Room.gameState.phase # "null"

\* a deck has been dealt into the game state
Dealt == InGame /\ Room.gameState.phase \in {"deciding_order", "playing", "resolution", "ended"}

Seated(gs, playerId) == FindPlayer(gs.players, playerId) # 0

PlayerById(gs, playerId) == gs.players[FindPlayer(gs.players, playerId)]

Used(gs, playerId, token) ==
    Seated(gs, playerId) /\ PlayerById(gs, playerId).actionTokens[token]

AllTokensUsed(gs) == \A i \in DOMAIN gs.players : ~HasUnusedToken(gs.players[i])

\* the player whose turn it is
CurrentPlayerId(gs) ==
    IF gs.currentPlayer + 1 \in DOMAIN gs.players
    THEN gs.players[gs.currentPlayer + 1].id ELSE "none"

IsPrefix(s, t) == Len(s) <= Len(t) /\ SubSeq(t, 1, Len(s)) = s

\* the number of cards with this id in a sequence of cards
CountId(cards, id) == Cardinality({i \in DOMAIN cards : cards[i].id = id})

\* the cards of hand with the ids cardIds, in the order of cardIds
CardsOf(hand, cardIds) ==
    Array([i \in DOMAIN cardIds |-> hand[findIndexById(hand, cardIds[i])]])

PlayTypes == {"PLAY_SECRET", "PLAY_TRADE_OFF", "INITIATE_GIFT", "INITIATE_COMPETITION"}

TokenOfType(type) ==
    CASE type = "PLAY_SECRET" -> "secret"
      [] type = "PLAY_TRADE_OFF" -> "trade-off"
      [] type = "INITIATE_GIFT" -> "gift"
      [] OTHER -> "competition"

\* the frames of the last step that were written to playerId
FramesTo(playerId) == SelectSeq(io.frames, LAMBDA f : f.to = playerId)

HasFrame(type) == \E i \in DOMAIN io.frames : io.frames[i].type = type

(***************************************************************************)
(* C1: card conservation                                                   *)
(***************************************************************************)
\* the piles the conservation rule lists, one after the other
ListedPiles(gs) ==
    gs.drawPile \o gs.discardPile
    \o (IF gs.removedCard = NoCard THEN <<>> ELSE <<gs.removedCard>>)
    \o Flat(Array([i \in DOMAIN gs.players |->
            gs.players[i].hand \o gs.players[i].playedCards
            \o gs.players[i].secretCards \o gs.players[i].discardedCards]))

\* C1: once a deck is dealt, the card ids found in drawPile, discardPile,
\* removedCard and in every player's hand, playedCards, secretCards and
\* discardedCards are exactly the ids of the 21-card deck, each exactly once.
C1_CardConservation ==
    Dealt =>
        /\ CardIds(ListedPiles(Room.gameState)) = DeckIds
        /\ \A id \in DeckIds : CountId(ListedPiles(Room.gameState), id) = 1

(***************************************************************************)
(* C7: every rejected frame is answered with ERROR                         *)
(***************************************************************************)
\* C7: every inbound frame the server rejects produces an ERROR frame sent to
\* the offending player and to no other player.
C7_RejectedFrameGetsError ==
    (io.rej /\ io.from \in PlayerIds) =>
        /\ \E i \in DOMAIN io.frames :
              io.frames[i].type = "ERROR" /\ io.frames[i].to = io.from
        /\ \A i \in DOMAIN io.frames : io.frames[i].to = io.from

(***************************************************************************)
(* C3: frames carry the viewer's projection only                           *)
(***************************************************************************)
\* C3: no frame written to player V (state frames, DEAL_ANIMATION, CARD_DRAWN,
\* ACTION_EXECUTED and the others) carries the real id of a card that is, when
\* the frame is written, in the opponent's hand, secretCards or
\* discardedCards, in drawPile, or the removedCard.
C3_FramesHideOpponentCards ==
    \A i \in DOMAIN io.frames : io.frames[i].cards \cap io.frames[i].hidden = {}

\* a deal animation that shows V its own cards while the opponent's cards, the
\* draw pile and the removed card are hidden from V
C3_Witness ==
    \E i \in DOMAIN io.frames :
        /\ io.frames[i].type = "DEAL_ANIMATION"
        /\ Cardinality(io.frames[i].cards) = HandSize
        /\ Cardinality(io.frames[i].hidden) > HandSize

(***************************************************************************)
(* C5: action tokens                                                       *)
(***************************************************************************)
C5_Step ==
    (InGame /\ InGame') =>
        LET gs == Room.gameState
            gs2 == Room'.gameState
            roundPrepared == gs2.round # gs.round
            roundStarts == roundPrepared \/ (gs.phase = "deciding_order" /\ gs2.phase = "playing")
        IN /\ \A p \in PlayerIds, t \in TokenTypes :
                (Used(gs, p, t) /\ ~roundPrepared) => Used(gs2, p, t)
           /\ io'.msg.type \in PlayTypes =>
                /\ ~Used(gs, io'.from, TokenOfType(io'.msg.type))
                /\ Used(gs2, io'.from, TokenOfType(io'.msg.type))
           /\ roundStarts => \A p \in PlayerIds, t \in TokenTypes : ~Used(gs2, p, t)

\* C5: a used token stays used until the next round is prepared, an action is
\* carried out only if its token was unused (and uses it), and when a round
\* starts all four tokens of both players are unused.
C5_TokensOncePerRound == [][C5_Step]_vars

\* the second round has started after a round in which every token was used,
\* and a play has been carried out in it
C5_Witness ==
    /\ InGame
    /\ Room.gameState.round > 1
    /\ io.msg.type \in PlayTypes
    /\ Used(Room.gameState, io.from, TokenOfType(io.msg.type))

(***************************************************************************)
(* C6: a rejected GAME_ACTION changes nothing                              *)
(***************************************************************************)
\* PLAY_TRADE_OFF {cardIds: [c1, cX]}: c1 the first card of the hand, cX foreign
TradeOffWithForeignCard(hand) ==
    Action("PLAY_TRADE_OFF", 0, <<hand[1].id, ForeignId>>, <<>>, NoIndex)

\* the current player may play a trade-off
MayTradeOff(room, playerId) ==
    /\ room.gameState.phase = "playing"
    /\ room.gameState.pendingInteraction.type = "none"
    /\ CurrentPlayerId(room.gameState) = playerId
    /\ ~Used(room.gameState, playerId, "trade-off")
    /\ Len(HandOf(room, playerId)) >= 2

C6_Step ==
    /\ (HasRoom /\ io'.rej) => Room'.gameState = Room.gameState
    /\ \A p \in PlayerIds :
        (InGame /\ MayTradeOff(Room, p)) =>
            LET c == handleGameAction(Ctx(Room, timers), p,
                                      TradeOffWithForeignCard(HandOf(Room, p)))
            IN /\ c.rej
               /\ c.room.gameState = Room.gameState
               /\ \E i \in DOMAIN c.out : c.out[i].type = "ERROR" /\ c.out[i].to = p

\* C6: a step in which the server turns a frame down leaves the game state
\* (hands, piles, tokens, currentPlayer, phase, pendingInteraction) as it was;
\* and PLAY_TRADE_OFF [c1, cX] with cX not in the hand is turned down with an
\* ERROR frame, the hand and the trade-off token unchanged.
C6_RejectedActionChangesNothing == [][C6_Step]_vars

\* a GAME_ACTION was turned down with an ERROR frame in the middle of a round
C6_Witness ==
    /\ InGame
    /\ io.rej
    /\ io.from \in PlayerIds
    /\ HasFrame("ERROR")
    /\ Room.gameState.phase = "playing"
    /\ \E t \in TokenTypes : Used(Room.gameState, io.from, t)
    /\ MayTradeOff(Room, io.from)

(***************************************************************************)
(* C2: the projection does not depend on hidden information                *)
(***************************************************************************)
OpponentIndex(gs, viewerId) ==
    CHOOSE i \in DOMAIN gs.players : gs.players[i].id # viewerId

Rotate(cards, k) ==
    Array([i \in DOMAIN cards |-> cards[((i - 1 + k) % Len(cards)) + 1]])

\* a game state equal to gs except for what is hidden from viewerId: the
\* identities of the cards in the opponent's hand and discardedCards (their
\* numbers are kept), the opponent's secretCards and their number, the
\* contents of drawPile, and removedCard
HiddenVariant(gs, viewerId, k, secrets) ==
    LET o == OpponentIndex(gs, viewerId)
        opp == gs.players[o]
        pool == Rotate(opp.hand \o opp.discardedCards \o opp.secretCards \o gs.drawPile
                       \o (IF gs.removedCard = NoCard THEN <<>> ELSE <<gs.removedCard>>), k)
        h == Len(opp.hand)
        d == Len(opp.discardedCards)
        rest == SubSeq(pool, h + d + 1, Len(pool))
        n == IF secrets <= Len(rest) THEN secrets ELSE Len(rest)
        left == SubSeq(rest, n + 1, Len(rest))
    IN [gs EXCEPT
          !.players[o].hand = SubSeq(pool, 1, h),
          !.players[o].discardedCards = SubSeq(pool, h + 1, h + d),
          !.players[o].secretCards = SubSeq(rest, 1, n),
          !.drawPile = IF left = <<>> THEN <<>> ELSE SubSeq(left, 1, Len(left) - 1),
          !.removedCard = IF left = <<>> THEN NoCard ELSE left[Len(left)]]

\* C2: for every viewer V of a game state of two players, the projection of
\* every state that differs in hidden information only is the projection of
\* the state itself; the projection keeps the lengths of the opponent's hand
\* and discardedCards and holds no id of a hidden card.
C2_ViewIndependentOfHidden ==
    (InGame /\ Len(Room.gameState.players) = 2) =>
        \A v \in PlayerIds :
            Seated(Room.gameState, v) =>
                LET gs == Room.gameState
                    o == OpponentIndex(gs, v)
                    view == buildClientGameState(gs, v)
                IN /\ \A k \in 0..MaxShift, n \in 0..MaxSecrets :
                        buildClientGameState(HiddenVariant(gs, v, k, n), v) = view
                   /\ Len(view.players[o].hand) = Len(gs.players[o].hand)
                   /\ Len(view.players[o].discardedCards) = Len(gs.players[o].discardedCards)
                   /\ StateCardIds(view) \cap HiddenFrom(gs, v) = {}

\* the opponent of p1 holds cards in its hand, secretCards and discardedCards,
\* the draw pile is not empty, and the variants differ from the state
C2_Witness ==
    /\ InGame
    /\ Room.gameState.phase = "playing"
    /\ Seated(Room.gameState, "p1")
    /\ LET gs == Room.gameState
           opp == gs.players[OpponentIndex(gs, "p1")]
       IN /\ opp.hand # <<>>
          /\ opp.secretCards # <<>>
          /\ opp.discardedCards # <<>>
          /\ gs.drawPile # <<>>
          /\ HiddenVariant(gs, "p1", 1, 0).players # gs.players
          /\ HiddenVariant(gs, "p1", 0, 0).players # gs.players
          /\ HiddenVariant(gs, "p1", 1, 1).drawPile # gs.drawPile

(***************************************************************************)
(* C4: one pending interaction, resolved by its target only                *)
(***************************************************************************)
MatchingResolve(pendingType) ==
    IF pendingType = "GIFT_SELECTION" THEN "RESOLVE_GIFT" ELSE "RESOLVE_COMPETITION"

C4_Step ==
    (InGame /\ Room.gameState.pendingInteraction.type # "none") =>
        LET gs == Room.gameState
            gs2 == Room'.gameState
            pending == gs.pendingInteraction
        IN /\ gs2 # gs =>
                /\ io'.from = pending.targetPlayerId
                /\ io'.msg.type = MatchingResolve(pending.type)
                /\ gs2.pendingInteraction = NoPending
           /\ \A p \in PlayerIds :
                \A a \in ActionInputs(Room, p) :
                    ~(p = pending.targetPlayerId /\ a.type = MatchingResolve(pending.type))
                        => handleGameAction(Ctx(Room, timers), p, a).rej

\* C4: while an interaction is pending the game state changes only by the
\* matching RESOLVE of its target, which clears it (so a second interaction
\* never replaces or joins the first); every other GAME_ACTION of either
\* player is rejected.
C4_PendingBlocksAllButTargetResolve == [][C4_Step]_vars

\* the initiator of a pending interaction has had a frame rejected
C4_Witness ==
    /\ InGame
    /\ Room.gameState.pendingInteraction.type = "GIFT_SELECTION"
    /\ io.rej
    /\ io.from = Room.gameState.pendingInteraction.initiatorId
    /\ HasFrame("ERROR")

(***************************************************************************)
(* C8: the gift                                                            *)
(***************************************************************************)
\* the turn has passed to playerId, or the round is resolved
TurnPassedTo(gs2, playerId) ==
    \/ gs2.phase = "playing" /\ CurrentPlayerId(gs2) = playerId
    \/ gs2.phase \in {"resolution", "ended"} /\ AllTokensUsed(gs2)

C8_Initiate ==
    LET gs == Room.gameState
        gs2 == Room'.gameState
        a == io'.from
        hand == PlayerById(gs, a).hand
        cardIds == io'.msg.cardIds
    IN /\ CurrentPlayerId(gs) = a
       /\ Len(cardIds) = 3
       /\ Range(cardIds) \subseteq CardIds(hand)
       /\ gs2.pendingInteraction.type = "GIFT_SELECTION"
       /\ gs2.pendingInteraction.initiatorId = a
       /\ gs2.pendingInteraction.targetPlayerId \in PlayerIds \ {a}
       /\ gs2.pendingInteraction.offeredCards = CardsOf(hand, cardIds)
       /\ CardIds(PlayerById(gs2, a).hand) = CardIds(hand) \ Range(cardIds)
       /\ Used(gs2, a, "gift")
       /\ CurrentPlayerId(gs2) = a

C8_Resolve ==
    LET gs == Room.gameState
        gs2 == Room'.gameState
        pending == gs.pendingInteraction
        a == pending.initiatorId
        b == io'.from
        chosen == io'.msg.cardId
    IN /\ pending.type = "GIFT_SELECTION"
       /\ pending.targetPlayerId = b
       /\ chosen \in CardIds(pending.offeredCards)
       /\ IsPrefix(PlayerById(gs, b).playedCards
                     \o SelectSeq(pending.offeredCards, LAMBDA card : card.id = chosen),
                   PlayerById(gs2, b).playedCards)
       /\ IsPrefix(PlayerById(gs, a).playedCards
                     \o SelectSeq(pending.offeredCards, LAMBDA card : card.id # chosen),
                   PlayerById(gs2, a).playedCards)
       /\ Used(gs2, a, "gift")
       /\ gs2.pendingInteraction = NoPending
       /\ TurnPassedTo(gs2, b)

C8_Step ==
    InGame =>
        /\ io'.msg.type = "INITIATE_GIFT" => C8_Initiate
        /\ io'.msg.type = "RESOLVE_GIFT" => C8_Resolve

\* C8: INITIATE_GIFT of the current player A with three cards of its hand
\* takes them out of the hand, offers them to the other player B and uses A's
\* gift token; RESOLVE_GIFT of B with one of the three puts it on B's
\* playedCards and the two others on A's, clears the pending interaction and
\* passes the turn to B, or resolves the round when every token is used.
C8_GiftTwoPhase == [][C8_Step]_vars

\* a gift has been resolved and the turn has passed to its target
C8_Witness ==
    /\ InGame
    /\ io.msg.type = "RESOLVE_GIFT"
    /\ Room.gameState.phase = "playing"
    /\ CurrentPlayerId(Room.gameState) = io.from
    /\ io.msg.cardId \in CardIds(PlayerById(Room.gameState, io.from).playedCards)

(***************************************************************************)
(* C9: the competition                                                     *)
(***************************************************************************)
C9_Step ==
    (InGame /\ io'.msg.type = "RESOLVE_COMPETITION"
            /\ io'.msg.chosenGroupIndex.num /\ io'.msg.chosenGroupIndex.val \in {0, 1}) =>
        LET gs == Room.gameState
            gs2 == Room'.gameState
            pending == gs.pendingInteraction
            a == pending.initiatorId
            b == io'.from
            index == io'.msg.chosenGroupIndex.val
        IN /\ pending.type = "COMPETITION_SELECTION"
           /\ pending.targetPlayerId = b
           /\ Len(pending.groups) = 2
           /\ Len(pending.groups[index + 1]) = 2
           /\ IsPrefix(PlayerById(gs, b).playedCards \o pending.groups[index + 1],
                       PlayerById(gs2, b).playedCards)
           /\ IsPrefix(PlayerById(gs, a).playedCards \o pending.groups[2 - index],
                       PlayerById(gs2, a).playedCards)
           /\ gs2.pendingInteraction = NoPending
           /\ TurnPassedTo(gs2, b)

\* C9: RESOLVE_COMPETITION of the target with chosenGroupIndex the number 0 or
\* 1 puts the chosen group of two cards on the target's playedCards and the
\* other group on the initiator's, clears the pending interaction and passes
\* the turn on (or resolves the round when every token is used).
C9_CompetitionResolved == [][C9_Step]_vars

\* a competition has been resolved with group 1 chosen, and the turn has passed
\* to its target
C9_Witness ==
    /\ InGame
    /\ io.msg.type = "RESOLVE_COMPETITION"
    /\ io.msg.chosenGroupIndex = [num |-> TRUE, val |-> 1]
    /\ Room.gameState.phase = "playing"
    /\ CurrentPlayerId(Room.gameState) = io.from

(***************************************************************************)
(* C10: control of a geisha                                                *)
(***************************************************************************)
\* the number of played cards of a player for a geisha
CountPlayed(player, geishaId) ==
    Cardinality({i \in DOMAIN player.playedCards : player.playedCards[i].geishaId = geishaId})

C10_Step ==
    (InGame /\ InGame') =>
        LET gs == Room.gameState
            gs2 == Room'.gameState
            resolving == gs.phase = "playing" /\ gs2.phase \in {"resolution", "ended"}
        IN /\ DOMAIN gs2.geishas = DOMAIN gs.geishas
           /\ \A i \in DOMAIN gs.geishas :
                LET before == gs.geishas[i].controlledBy
                    after == gs2.geishas[i].controlledBy
                    n1 == CountPlayed(gs2.players[1], gs2.geishas[i].id)
                    n2 == CountPlayed(gs2.players[2], gs2.geishas[i].id)
                IN IF resolving
                   THEN after = (IF n1 > n2 THEN gs2.players[1].id
                                 ELSE IF n2 > n1 THEN gs2.players[2].id
                                 ELSE before)
                   ELSE after = before

\* C10: controlledBy changes in no step but the one that resolves the round;
\* there it becomes the player with strictly more played cards for the geisha
\* (the revealed secret cards counted) and stays as it was on a tie; the step
\* that starts the next round leaves it as it was.
C10_ControlChangesAtResolutionOnly == [][C10_Step]_vars

\* the second round is resolved; one geisha is kept by its holder on a tie and
\* another one changes hands
C10_Witness ==
    /\ InGame
    /\ Room.gameState.round = 2
    /\ Room.gameState.phase \in {"resolution", "ended"}
    /\ HasFrame("ROUND_COMPLETE")
    /\ \E i \in DOMAIN Room.gameState.geishas :
          /\ Room.gameState.geishas[i].controlledBy # "none"
          /\ CountPlayed(Room.gameState.players[1], i) = CountPlayed(Room.gameState.players[2], i)
    /\ \E i \in DOMAIN Room.gameState.geishas :
          /\ Room.baseGeishas[i].controlledBy \notin {"none", Room.gameState.geishas[i].controlledBy}

(***************************************************************************)
(* C11: determineWinner over every control of the seven geisha             *)
(***************************************************************************)
\* who may hold a geisha
Holders == {"none"} \cup PlayerIds

\* the seven geisha, geisha i held by control[i]
GeishasHeldBy(control) ==
    Array([i \in DOMAIN createBaseGeishas |->
        [createBaseGeishas[i] EXCEPT !.controlledBy = control[i]]])

\* a room of two seats at the end of a round in which no card was played:
\* every count of resolveRound is a tie, so the geisha stay with control
RoomAtRoundEnd(control) ==
    LET seats == <<[playerId |-> "p1", ws |-> "open"], [playerId |-> "p2", ws |-> "open"]>>
        geishas == GeishasHeldBy(control)
    IN [NewRoom EXCEPT
          !.players = seats,
          !.hostId = HostId,
          !.baseGeishas = geishas,
          !.lastRoundStarterId = "p1",
          !.gameState = createGameStateWithOrder(<<"p1", "p2">>, geishas, NoGameState)]

WinnerInit ==
    /\ \E control \in [DOMAIN createBaseGeishas -> Holders] :
          gameRooms = (RoomId :> RoomAtRoundEnd(control))
    /\ timers = NoTimers
    /\ io = NoIo
    /\ deviated = FALSE
    /\ conns = [p \in PlayerIds |-> [NoConn EXCEPT !.bound = TRUE]]
    /\ awaiting = {}
    /\ unregistered = NoRoom
    /\ roomStore = NoStore

\* resolveRound, once
ResolveRound ==
    /\ io = NoIo
    /\ Handled(resolveRound(Ctx(Room, timers)), "resolveRound")

WinnerNext == ResolveRound

WinnerSpec == WinnerInit /\ [][WinnerNext]_vars

\* the players of gs that have reached the charm, the geisha threshold
ReachedCharm(gs) == {i \in DOMAIN gs.players : gs.players[i].score.charm >= CharmToWin}
ReachedTokens(gs) == {i \in DOMAIN gs.players : gs.players[i].score.tokens >= TokensToWin}

\* C11: after round resolution, a player with charm >= 11 is the winner;
\* when there is none, a player with 4 geisha or more is the winner; when
\* there is none either, the round has no winner
C11_WinnerByCharmThenTokens ==
    io.from = "resolveRound" =>
        LET gs == Room.gameState
        IN IF ReachedCharm(gs) # {}
           THEN \A i \in ReachedCharm(gs) : gs.winner = gs.players[i].id
           ELSE IF ReachedTokens(gs) # {}
           THEN \A i \in ReachedTokens(gs) : gs.winner = gs.players[i].id
           ELSE gs.winner = "none" /\ gs.phase = "resolution"

\* a round is resolved in which one player has reached the charm threshold
\* with three geisha and the other one holds the four remaining geisha
C11_Witness ==
    /\ io.from = "resolveRound"
    /\ \E i, j \in DOMAIN Room.gameState.players :
          /\ i # j
          /\ i \in ReachedCharm(Room.gameState)
          /\ j \in ReachedTokens(Room.gameState)
          /\ Room.gameState.players[i].score.tokens < TokensToWin
          /\ Room.gameState.winner = Room.gameState.players[i].id
          /\ Room.gameState.phase = "ended"

(***************************************************************************)
(* C15: the secret cards are revealed and counted at round resolution      *)
(***************************************************************************)
\* the step resolves a round
RoundResolved == InGame /\ InGame' /\ HasFrame("ROUND_COMPLETE")'

HasCard(cards, id) == \E k \in DOMAIN cards : cards[k].id = id

C15_Step ==
    RoundResolved =>
        LET gs == Room.gameState
            gs2 == Room'.gameState
        IN /\ \A i \in DOMAIN gs2.players : gs2.players[i].secretCards = <<>>
           \* the cards that were secret are among the played cards
           /\ \A i \in DOMAIN gs.players :
                 \A k \in DOMAIN gs.players[i].secretCards :
                    HasCard(PlayerById(gs2, gs.players[i].id).playedCards,
                            gs.players[i].secretCards[k].id)
           /\ io'.msg.type = "PLAY_SECRET" =>
                 HasCard(PlayerById(gs2, io'.from).playedCards, io'.msg.cardId)
           \* and the counts that give control are those of the played cards
           /\ \A g \in DOMAIN gs2.geishas :
                 /\ CountPlayed(gs2.players[1], g) > CountPlayed(gs2.players[2], g)
                       => gs2.geishas[g].controlledBy = gs2.players[1].id
                 /\ CountPlayed(gs2.players[2], g) > CountPlayed(gs2.players[1], g)
                       => gs2.geishas[g].controlledBy = gs2.players[2].id

Pending(gs) == gs.pendingInteraction

\* gs2 is gs with the same player to move and the same draw pile, and the
\* step that led to it has drawn no card
TurnNotAdvanced(gs, gs2) ==
    /\ gs2.phase = "playing"
    /\ gs2.currentPlayer = gs.currentPlayer
    /\ CurrentPlayerId(gs2) = Pending(gs2).initiatorId
    /\ gs2.drawPile = gs.drawPile
    /\ ~HasFrame("CARD_DRAWN")'

C19_Step ==
    (InGame /\ InGame') =>
        LET gs == Room.gameState
            gs2 == Room'.gameState
        IN \* the interaction is opened: no draw, the initiator is still to move
           /\ (Pending(gs).type = "none" /\ Pending(gs2).type # "none")
                 => /\ TurnNotAdvanced(gs, gs2)
                    /\ io'.from = Pending(gs2).initiatorId
           \* it stays pending
           /\ (Pending(gs).type # "none" /\ Pending(gs2).type # "none")
                 => /\ TurnNotAdvanced(gs, gs2)
                    /\ Pending(gs2) = Pending(gs)
           \* it is closed by the RESOLVE of its target, and with it the next
           \* turn begins with a draw, or the round is resolved
           /\ (Pending(gs).type # "none" /\ Pending(gs2).type = "none")
                 => /\ io'.from = Pending(gs).targetPlayerId
                    /\ ~io'.rej
                    /\ io'.msg.type = MatchingResolve(Pending(gs).type)
                    /\ \/ /\ gs2.phase = "playing"
                          /\ gs2.drawPile = Tail(gs.drawPile)
                          /\ HasFrame("CARD_DRAWN")'
                          /\ Len(gs2.players[gs2.currentPlayer + 1].hand) =
                                Len(gs.players[gs2.currentPlayer + 1].hand) + 1
                       \/ /\ gs2.phase \in {"resolution", "ended"}
                          /\ AllTokensUsed(gs2)

\* C19: while a gift or a competition is pending the initiator is still the
\* current player and no card is drawn; the next turn begins, with its draw,
\* only when the RESOLVE of the target is accepted
C19_PendingHoldsTheTurn == [][C19_Step]_vars

\* an interaction is pending, a frame of its initiator has just been turned
\* down, and the initiator is still the current player
C19_Witness ==
    /\ InGame
    /\ Pending(Room.gameState).type = "COMPETITION_SELECTION"
    /\ io.rej
    /\ io.from = Pending(Room.gameState).initiatorId
    /\ CurrentPlayerId(Room.gameState) = io.from
    /\ Room.gameState.drawPile # <<>>

(***************************************************************************)
(* C20: advancing the turn                                                 *)
(***************************************************************************)
\* the actions that end a turn
TurnEndingTypes == {"PLAY_SECRET", "PLAY_TRADE_OFF", "RESOLVE_GIFT", "RESOLVE_COMPETITION"}

\* the seats of gs2 that still hold an unused token, as distances (1..n) from
\* the seat `current` in the order of the seats
SeatsAfter(gs2, current) ==
    {k \in 1..Len(gs2.players) :
        HasUnusedToken(gs2.players[((current + k) % Len(gs2.players)) + 1])}

C20_Step ==
    (InGame /\ InGame' /\ ~io'.rej /\ io'.msg.type \in TurnEndingTypes) =>
        LET gs == Room.gameState
            gs2 == Room'.gameState
            n == Len(gs2.players)
            after == SeatsAfter(gs2, gs.currentPlayer)
        IN IF after = {}
           THEN /\ gs2.phase \in {"resolution", "ended"}
                /\ HasFrame("ROUND_COMPLETE")'
                /\ gs2.drawPile = gs.drawPile
           ELSE LET k == CHOOSE k \in after : \A j \in after : k <= j
                    next == gs2.players[gs2.currentPlayer + 1]
                IN /\ gs2.phase = "playing"
                   /\ gs2.currentPlayer = (gs.currentPlayer + k) % n
                   /\ HasUnusedToken(next)
                   \* that seat has drawn the top card of the draw pile
                   /\ gs.drawPile # <<>>
                   /\ gs2.drawPile = Tail(gs.drawPile)
                   /\ next.hand # <<>>
                   /\ next.hand[Len(next.hand)] = Head(gs.drawPile)
                   /\ next.id # io'.from =>
                         next.hand = Append(PlayerById(gs, next.id).hand, Head(gs.drawPile))
                   /\ HasFrame("CARD_DRAWN")'
                   /\ ~HasFrame("ROUND_COMPLETE")'

\* C20: after an accepted PLAY_SECRET, PLAY_TRADE_OFF, RESOLVE_GIFT or
\* RESOLVE_COMPETITION the current player is the next seat after the current
\* one that still has an unused token, and that seat has drawn one card; when
\* no seat has an unused token the round is resolved instead
C20_TurnAdvances == [][C20_Step]_vars

\* the target has resolved a competition and is now the current player, with
\* the card it has drawn
C20_Witness ==
    /\ InGame
    /\ ~io.rej
    /\ io.msg.type = "RESOLVE_COMPETITION"
    /\ Room.gameState.phase = "playing"
    /\ CurrentPlayerId(Room.gameState) = io.from
    /\ HasFrame("CARD_DRAWN")
    /\ Used(Room.gameState, io.from, "secret")

(***************************************************************************)
(* C12: the game starts only after the four confirmations                  *)
(***************************************************************************)
\* the step writes GAME_STARTED only if, before it, every seat had confirmed
\* the announced order and the ready check those confirmations schedule had
\* been opened
C12_Step ==
    HasFrame("GAME_STARTED")' =>
        /\ HasRoom
        /\ Cardinality(Room.orderDecisionState.confirmations) = maxPlayers
        /\ timers["startReadyCheck"] = 0

\* C12: GAME_STARTED is emitted only after both seats have confirmed the
\* announced order and, after that, both have confirmed in the ready check
C12_StartedAfterFourConfirmations == [][C12_Step]_vars

(***************************************************************************)
(* C13: disconnect followed by reconnect                                   *)
(***************************************************************************)
\* the connection of playerId was closed during a game the player is part of
Dropped(playerId) ==
    /\ HasRoom
    /\ ~conns[playerId].bound
    /\ conns[playerId].left > 0
    /\ Room.gameState.phase = "playing"
    /\ Seated(Room.gameState, playerId)

\* the JOIN_ROOM of a dropped client re-attaches its seat, leaves the game
\* state as it is, answers with GAME_STATE_UPDATED and schedules nothing
C13_Step ==
    \A p \in PlayerIds :
        Dropped(p) /\ conns'[p].bound =>
            /\ SeatOf(Room', p) # 0
            /\ Room'.gameState = Room.gameState
            /\ \E i \in DOMAIN io'.frames :
                io'.frames[i].to = p /\ io'.frames[i].type = "GAME_STATE_UPDATED"
            /\ timers' = timers

\* C13: a client that drops during a game and joins again with the same
\* playerId and roomId gets its seat back, finds the game state unchanged,
\* receives GAME_STATE_UPDATED, and no order decision or deal is started
C13_ReconnectIsIdentity == [][C13_Step]_vars

(***************************************************************************)
(* C14: a connection drop                                                  *)
(***************************************************************************)
\* the step is the close event of the connection of playerId, which has a seat
Drops(playerId) ==
    /\ HasRoom
    /\ SeatOf(Room, playerId) # 0
    /\ conns[playerId].bound
    /\ ~conns'[playerId].bound

\* after the close the room is in the registry with the seat of the client in
\* it, and the game state (the pending interaction included) is as before
C14_Step ==
    \A p \in PlayerIds :
        Drops(p) =>
            /\ HasRoom'
            /\ SeatOf(Room', p) # 0
            /\ Room'.gameState = Room.gameState

\* C14: a socket close changes nothing but the seat's connection: the seat
\* stays in the room, the game state is unchanged, a pending interaction
\* stays pending with the same initiator and target
C14_CloseKeepsSeatAndState == [][C14_Step]_vars

(***************************************************************************)
(* C16: rooms without a client are removed from the registry               *)
(***************************************************************************)
\* a seat of a client (the AI's seat has the stub socket)
HumanSeats(room) == {i \in DOMAIN room.players : room.players[i].ws # "stub"}

\* the step has processed a LEAVE_ROOM or a close of some connection
LeaveProcessed == \E p \in PlayerIds : conns'[p].left > conns[p].left

\* after a leave the registry holds the room only with a client seated in it,
\* and the room that went out of the registry had no client left in it
C16_Step ==
    LeaveProcessed /\ HasRoom =>
        IF HasRoom'
        THEN HumanSeats(Room') # {} /\ unregistered' = unregistered
        ELSE /\ unregistered'.deleted
             /\ HumanSeats(unregistered'.room) = {}

\* C16: after a LEAVE_ROOM or a connection close has been processed, the
\* registry contains no room whose seat list is empty or holds the AI seat
\* only: such a room has been removed from the registry
C16_NoAbandonedRoomInRegistry == [][C16_Step]_vars

\* a client has left the room it shared with the AI only, and the room is gone
C16_Witness ==
    /\ io.from \in PlayerIds
    /\ conns[io.from].left > 0
    /\ ~HasRoom
    /\ unregistered.deleted
    /\ unregistered.room.npcId # "none"
    /\ Len(unregistered.room.players) = 1

(***************************************************************************)
(* C17: timers of a room that is gone                                      *)
(***************************************************************************)
\* the timers that run startNextRound, performNpcAction and performNpcResponse
StateBoundTimers == {"roundResolveTimer", "npcActionTimer", "npcResponseTimer"}

\* the step removes the room from the registry
RoomRemoved == ~unregistered.deleted /\ unregistered'.deleted

\* the step runs the callback of a round-advance or AI timer of the room that
\* was removed from the registry
RunsOnRemovedRoom ==
    /\ unregistered.deleted
    /\ \E name \in StateBoundTimers :
        unregistered'.timers[name] < unregistered.timers[name]

\* when the room is removed from the registry, none of its round-advance and
\* AI timers is left to run, and none of them acts on the room afterwards
C17_Step ==
    /\ RoomRemoved => \A name \in StateBoundTimers : unregistered'.timers[name] = 0
    /\ RunsOnRemovedRoom => unregistered'.room = unregistered.room

\* C17: a round-advance timer or AI action/response timer scheduled before
\* the room was removed from the registry is cancelled and does not run
\* against the room
C17_TimersCancelledWithRoom == [][C17_Step]_vars

(***************************************************************************)
(* C18: frames are handled one after the other                             *)
(***************************************************************************)
\* the step starts the handling of a frame of a client
FrameArrives == io'.from \in PlayerIds /\ ~(awaiting' \subseteq awaiting /\ awaiting' # awaiting)

\* while the handling of a JOIN_ROOM waits for the snapshot store, the
\* handling of no other frame starts
C18_Step == awaiting # {} => ~FrameArrives

\* C18: the handling of a frame, a JOIN_ROOM that loads a snapshot included,
\* is complete before the handling of the next frame begins
C18_FramesInArrivalOrder == [][C18_Step]_vars

(***************************************************************************)
(* C21: a winner ends the game                                             *)
(***************************************************************************)
Ended == HasRoom /\ Room.gameState.phase = "ended"

\* the step handles a GAME_ACTION, a CONFIRM_ORDER or a timer of the room: the
\* room stays in the registry with the seats it had
KeepsSeats == HasRoom' /\ Room'.players = Room.players

\* the step that ends the game sets the winner, broadcasts GAME_ENDED and
\* schedules and prepares no next round; from then on the game state stays
C21_Step ==
    /\ InGame /\ ~Ended /\ Ended' =>
        /\ Room'.gameState.winner \in {Room.gameState.players[i].id :
                                         i \in DOMAIN Room.gameState.players}
        /\ HasFrame("GAME_ENDED")'
        /\ \A name \in TimerNames : timers'[name] <= timers[name]
        /\ Room'.gameState.round = Room.gameState.round
    /\ Ended /\ KeepsSeats => Room'.gameState = Room.gameState

NextRoundPrepared ==
    /\ InGame
    /\ InGame'
    /\ Room'.gameState.round = Room.gameState.round + 1

\* every player of the round that was resolved is a player of the next round,
\* with the score of the resolution, new tokens, no played, secret or
\* discarded card and the hand that was dealt
C22_Step ==
    NextRoundPrepared =>
        \A i \in DOMAIN Room.gameState.players :
            LET old == Room.gameState.players[i]
                new == PlayerById(Room'.gameState, old.id)
            IN /\ Seated(Room'.gameState, old.id)
               /\ new.score = old.score
               /\ \A t \in TokenTypes : ~new.actionTokens[t]
               /\ new.playedCards = <<>>
               /\ new.secretCards = <<>>
               /\ new.discardedCards = <<>>
               /\ Len(new.hand) \in {HandSize, HandSize + 1}

\* C22: after the next round is prepared each player's score (charm, tokens)
\* equals the score computed at the previous round's resolution, while
\* tokens, hand, playedCards, secretCards and discardedCards are reset
C22_NextRoundKeepsScore == [][C22_Step]_vars

(***************************************************************************)
(* C23: the scores after a round resolution                                *)
(***************************************************************************)
\* the geisha of gs that playerId controls
GeishasOf(gs, playerId) == {i \in DOMAIN gs.geishas : gs.geishas[i].controlledBy = playerId}

RECURSIVE CharmOf(_, _)
\* the charm points of the geisha of gs at the indices in S
CharmOf(gs, S) ==
    IF S = {} THEN 0
    ELSE LET i == CHOOSE i \in S : TRUE
         IN gs.geishas[i].charmPoints + CharmOf(gs, S \ {i})

\* C23: immediately after a round resolution each player's score.tokens is
\* the number of geisha the player controls and score.charm the sum of their
\* charm points; the players' tokens sum to at most 7, their charm to at most 21
C23_ScoresMatchControl ==
    io.from = "resolveRound" =>
        LET gs == Room.gameState
        IN /\ \A i \in DOMAIN gs.players :
                /\ gs.players[i].score.tokens = Cardinality(GeishasOf(gs, gs.players[i].id))
                /\ gs.players[i].score.charm = CharmOf(gs, GeishasOf(gs, gs.players[i].id))
           /\ gs.players[1].score.tokens + gs.players[2].score.tokens
                 <= Len(charmPointsDistribution)
           /\ gs.players[1].score.charm + gs.players[2].score.charm
                 <= SumSeq(charmPointsDistribution)

\* a round is resolved with the two players holding different, non-empty
\* sets of geisha and one geisha held by nobody
C23_Witness ==
    /\ io.from = "resolveRound"
    /\ Room.gameState.players[1].score = [charm |-> 7, tokens |-> 3]
    /\ Room.gameState.players[2].score = [charm |-> 9, tokens |-> 2]

(***************************************************************************)
(* C24: the round that prepareRoundState sets up                           *)
(***************************************************************************)
DrawPileSize == 8

\* what validateRoundSetup looks at, and the order of the deal steps
RoundSetup(room) ==
    LET gs == room.gameState
        ids == <<gs.removedCard.id>>
               \o Flat([i \in DOMAIN gs.players |->
                          [k \in DOMAIN gs.players[i].hand |-> gs.players[i].hand[k].id]])
               \o [k \in DOMAIN gs.drawPile |-> gs.drawPile[k].id]
    IN /\ Len(gs.players) = 2
       /\ \A i \in DOMAIN gs.players : Len(gs.players[i].hand) = HandSize
       /\ Len(gs.drawPile) = DrawPileSize
       /\ gs.removedCard # NoCard
       /\ Len(ids) = Cardinality(DeckIds)
       /\ Range(ids) = DeckIds
       /\ Len(room.dealSequence) = 2 * HandSize
       /\ \A i \in DOMAIN room.dealSequence :
            /\ room.dealSequence[i].order = i - 1
            /\ room.dealSequence[i].playerId = gs.players[((i - 1) % 2) + 1].id
            /\ room.dealSequence[i].card = gs.players[((i - 1) % 2) + 1].hand[((i - 1) \div 2) + 1]

\* room before beginTurnForCurrentPlayer drew the first card of the round
BeforeFirstDraw(room) ==
    LET gs == room.gameState
        idx == gs.currentPlayer + 1
        hand == gs.players[idx].hand
    IN [room EXCEPT !.gameState.players[idx].hand = SubSeq(hand, 1, Len(hand) - 1),
                    !.gameState.drawPile = <<hand[Len(hand)]>> \o @]

OrderDecisionStarted == HasRoom' /\ HasFrame("ORDER_DECISION_START")'

C24_Step ==
    /\ OrderDecisionStarted => RoundSetup(Room)'
    /\ NextRoundPrepared => RoundSetup(BeforeFirstDraw(Room))'

\* C24: after every prepareRoundState for two players each hand has 6 cards,
\* the draw pile 8, removedCard is set, the 21 card ids are pairwise distinct
\* and the 12 deal steps alternate between the seats, the first seat first
C24_RoundSetup == [][C24_Step]_vars

\* the second round of a game has been dealt, to the players in swapped order
C24_Witness ==
    /\ InGame
    /\ Room.gameState.round = 2
    /\ Len(Room.dealSequence) = 2 * HandSize
    /\ Room.dealSequence[1].playerId # Room.players[1].playerId
    /\ HasFrame("DEAL_ANIMATION")

(***************************************************************************)
(* C25: the starting player alternates, the round number counts up         *)
(***************************************************************************)
\* the player whose turn it is
TurnOf(room) == room.gameState.players[room.gameState.currentPlayer + 1].id

\* the player who has just been given the first turn of a round
FirstTurnOf(room) ==
    IF Len(room.gameState.players[room.gameState.currentPlayer + 1].hand) = HandSize + 1
    THEN TurnOf(room) ELSE "none"

GameStarted == InGame' /\ HasFrame("GAME_STARTED")'

C25_Step ==
    /\ GameStarted => /\ FirstTurnOf(Room') # "none"
                      /\ Room'.lastRoundStarterId = FirstTurnOf(Room')
                      /\ Room'.gameState.round = 1
    /\ NextRoundPrepared =>
          /\ FirstTurnOf(Room') # "none"
          /\ FirstTurnOf(Room') # Room.lastRoundStarterId
          /\ Seated(Room.gameState, FirstTurnOf(Room'))
          /\ Room'.lastRoundStarterId = FirstTurnOf(Room')
          /\ io'.from = "timer"
          /\ timers["roundResolveTimer"] > timers'["roundResolveTimer"]
    /\ (InGame /\ InGame' /\ ~GameStarted) =>
          /\ Room'.gameState.round \in {Room.gameState.round, Room.gameState.round + 1}
          /\ ~NextRoundPrepared => Room'.lastRoundStarterId = Room.lastRoundStarterId
    /\ (RoundResolved /\ Room'.gameState.winner = "none") =>
          /\ timers'["roundResolveTimer"] = timers["roundResolveTimer"] + 1
          /\ getNextRoundOrder(Room')[1] # Room'.lastRoundStarterId
          /\ getNextRoundOrder(Room')[2] = Room'.lastRoundStarterId
    /\ (InGame /\ InGame' /\ ~(RoundResolved /\ Room'.gameState.winner = "none")) =>
          timers'["roundResolveTimer"] <= timers["roundResolveTimer"]

\* C25: the first turn of round n+1 goes to the seat that did not take the
\* first turn of round n, and the round number grows by exactly 1 for each
\* round resolution without a winner (and not otherwise)
C25_StarterAlternates == [][C25_Step]_vars

\* round 2 has begun with the other player's turn
C25_Witness ==
    /\ InGame
    /\ Room.gameState.round = 2
    /\ Room.gameState.phase = "playing"
    /\ Room.lastRoundStarterId = TurnOf(Room)
    /\ Len(Room.gameState.players[Room.gameState.currentPlayer + 1].hand) = HandSize + 1
    /\ Room.lastRoundStarterId # Room.players[1].playerId

(***************************************************************************)
(* C26: the AI seat acts through handleAction only                         *)
(***************************************************************************)
\* the GameRoom objects whose timers can still run
LiveRooms ==
    (IF HasRoom THEN {Room} ELSE {})
    \cup (IF unregistered.deleted THEN {unregistered.room} ELSE {})

\* the AI's token t is unused in room and used after c
TokenConsumed(room, c) ==
    /\ Seated(room.gameState, room.npcId)
    /\ Seated(c.room.gameState, room.npcId)
    /\ \E t \in TokenTypes :
        /\ ~PlayerById(room.gameState, room.npcId).actionTokens[t]
        /\ PlayerById(c.room.gameState, room.npcId).actionTokens[t]

\* a pending interaction addressed to the AI in room is gone after c
PendingResolved(room, c) ==
    /\ room.gameState.pendingInteraction # NoPending
    /\ room.gameState.pendingInteraction.targetPlayerId = room.npcId
    /\ c.room.gameState.pendingInteraction # room.gameState.pendingInteraction

\* the callbacks of the AI's timers change the game state of room only by
\* an accepted action
ActsThroughHandleAction(room) ==
    (room.npcId # "none" /\ room.gameState.phase # "null") =>
        /\ \A a \in NpcActionInputs(room) :
             LET c == performNpcAction(Ctx(room, NoTimers), a)
             IN c.room.gameState # room.gameState =>
                    a # NoAction /\ ~c.rej /\ TokenConsumed(room, c)
        /\ \A a \in NpcResponseInputs(room) :
             LET c == performNpcResponse(Ctx(room, NoTimers), a)
             IN c.room.gameState # room.gameState =>
                    a # NoAction /\ ~c.rej /\ PendingResolved(room, c)

\* C26: in no reachable state does the AI advance the turn, move cards or end
\* its turn without an accepted action that consumes one of its tokens or
\* resolves a pending interaction addressed to it
C26_AiActsThroughHandleAction == \A room \in LiveRooms : ActsThroughHandleAction(room)

(***************************************************************************)
(* C27: the gift card the AI picks                                         *)
(***************************************************************************)
\* the geisha whose cards are on the table, and how many of them a seat has played
GiftGeishas == {5, 6, 7}
MaxPlayedCount == 2

\* n cards of geisha geishaId, from copy number from
CopiesOf(geishaId, from, n) ==
    Array([k \in 1..n |-> [id |-> CardIdOf(geishaId, from + k - 1), geishaId |-> geishaId]])

\* an AI room in which p1 has offered the AI the cards of offeredGeishas, the
\* AI having played npcCount[g] and p1 oppCount[g] cards of geisha g
GiftRoom(npcCount, oppCount, offeredGeishas, difficulty) ==
    LET Count(cnt, g) == IF g \in GiftGeishas THEN cnt[g] ELSE 0
        ids == [i \in DOMAIN createBaseGeishas |-> i]
        npcPlayed == Flat([g \in DOMAIN ids |-> CopiesOf(g, 0, Count(npcCount, g))])
        oppPlayed == Flat([g \in DOMAIN ids |->
                             CopiesOf(g, Count(npcCount, g), Count(oppCount, g))])
        Earlier(k) == Cardinality({j \in 1..(k - 1) : offeredGeishas[j] = offeredGeishas[k]})
        offered == Array([k \in DOMAIN offeredGeishas |->
                      LET g == offeredGeishas[k]
                      IN [id |-> CardIdOf(g, npcCount[g] + oppCount[g] + Earlier(k)),
                          geishaId |-> g]])
        used == Range(npcPlayed) \cup Range(oppPlayed) \cup Range(offered)
        rest == SelectSeq(DeckCards(createBaseGeishas), LAMBDA card : card \notin used)
        gs == createGameStateWithOrder(<<"p1", NpcLabel>>, createBaseGeishas, NoGameState)
    IN [NewRoom EXCEPT
          !.players = <<[playerId |-> "p1", ws |-> "open"],
                        [playerId |-> NpcLabel, ws |-> "stub"]>>,
          !.hostId = HostId,
          !.npcId = NpcLabel,
          !.npcDifficulty = difficulty,
          !.baseGeishas = createBaseGeishas,
          !.lastRoundStarterId = "p1",
          !.gameState =
              [gs EXCEPT
                  !.players[1].playedCards = oppPlayed,
                  !.players[1].actionTokens["gift"] = TRUE,
                  !.players[1].hand = SubSeq(rest, 2, 4),
                  !.players[2].playedCards = npcPlayed,
                  !.players[2].hand = SubSeq(rest, 5, 7),
                  !.removedCard = rest[1],
                  !.drawPile = SubSeq(rest, 8, Len(rest)),
                  !.pendingInteraction =
                      [type |-> "GIFT_SELECTION", initiatorId |-> "p1",
                       targetPlayerId |-> NpcLabel, offeredCards |-> offered,
                       groups |-> <<>>]]]

\* the cards of every geisha suffice for the counts and the offer
EnoughCopies(npcCount, oppCount, offeredGeishas) ==
    \A g \in GiftGeishas :
        npcCount[g] + oppCount[g]
          + Cardinality({k \in DOMAIN offeredGeishas : offeredGeishas[k] = g})
        <= charmPointsDistribution[g]

GiftInit ==
    /\ \E npcCount \in [GiftGeishas -> 0..MaxPlayedCount],
          oppCount \in [GiftGeishas -> 0..MaxPlayedCount],
          offeredGeishas \in [1..3 -> GiftGeishas],
          difficulty \in Difficulties :
          /\ EnoughCopies(npcCount, oppCount, offeredGeishas)
          /\ gameRooms = (RoomId :> GiftRoom(npcCount, oppCount, offeredGeishas, difficulty))
    /\ timers = [NoTimers EXCEPT !["npcResponseTimer"] = 1]
    /\ io = NoIo
    /\ deviated = FALSE
    /\ conns = [p \in PlayerIds |-> [NoConn EXCEPT !.bound = (p = HostId)]]
    /\ awaiting = {}
    /\ unregistered = NoRoom
    /\ roomStore = NoStore

GiftNext == TimerNpcResponse

GiftSpec == GiftInit /\ [][GiftNext]_vars

\* the utility of card for the AI in room, by the counts of played cards
CardUtility(room, card) ==
    LET gs == room.gameState
        myCount == CountPlayed(PlayerById(gs, room.npcId), card.geishaId)
        oppCount == CountPlayed(gs.players[OpponentIndex(gs, room.npcId)], card.geishaId)
        charm == charmPointsDistribution[card.geishaId]
    IN IF myCount + 1 > oppCount /\ myCount <= oppCount THEN 4 * charm
       ELSE IF myCount + 1 = oppCount THEN 2 * charm
       ELSE charm

GiftAnswered ==
    /\ HasRoom
    /\ Room.gameState.phase = "playing"
    /\ Room.gameState.pendingInteraction.type = "GIFT_SELECTION"
    /\ Room.gameState.pendingInteraction.targetPlayerId = Room.npcId
    /\ timers'["npcResponseTimer"] < timers["npcResponseTimer"]

C27_Step ==
    (GiftAnswered /\ Room.npcDifficulty # "easy") =>
        LET offered == Room.gameState.pendingInteraction.offeredCards
        IN /\ io'.msg.type = "RESOLVE_GIFT"
           /\ \E k \in DOMAIN offered :
                /\ offered[k].id = io'.msg.cardId
                /\ \A j \in DOMAIN offered :
                      CardUtility(Room, offered[j]) <= CardUtility(Room, offered[k])
                /\ PlayerById(Room'.gameState, Room.npcId).playedCards
                      = Append(PlayerById(Room.gameState, Room.npcId).playedCards, offered[k])

\* C27: at every tier other than easy the card the AI takes of a gift has the
\* largest utility for the AI among the offered cards (4*charm if
\* myCount+1 > oppCount and myCount <= oppCount, 2*charm if myCount+1 = oppCount,
\* charm otherwise)
C27_GiftPickHasLargestUtility == [][C27_Step]_vars

\* the AI at tier hard has taken a card of geisha 5 and left p1 the cards
\* of geisha 6 and 7, which have more charm
C27_Witness ==
    /\ HasRoom
    /\ Room.npcDifficulty = "hard"
    /\ io.from = "timer"
    /\ io.msg.type = "RESOLVE_GIFT"
    /\ io.msg.cardId \div 10 = 5
    /\ LET played == Room.gameState.players[1].playedCards
       IN /\ Len(played) >= 2
          /\ {played[Len(played) - 1].geishaId, played[Len(played)].geishaId} = {6, 7}

(***************************************************************************)
(* C28: the AI seat confirms by itself                                     *)
(***************************************************************************)
\* a room with an AI seat whose client stays connected
NpcGameNext ==
    \/ CreateNpcRoom
    \/ TimerStartOrderDecision
    \/ TimerDecideOrder
    \/ TimerStartReadyCheck
    \/ TimerStartNextRound
    \/ TimerNpcConfirmOrder
    \/ TimerNpcConfirmReady
    \/ TimerNpcAction
    \/ TimerNpcResponse
    \/ ConfirmOrderAnyTime
    \/ ReadyConfirmAnyTime
    \/ DefaultAction
    \/ ActionAfterEnd

\* the callback of timer name runs: one pending callback less of that name,
\* and one more of each timer the callback has armed
TimerRuns(name) ==
    /\ FireTimer(name)
    /\ \E armed \in SUBSET (TimerNames \ {name}) :
          timers' = [t \in TimerNames |->
                        IF t = name THEN timers[t] - 1
                        ELSE IF t \in armed THEN timers[t] + 1
                        ELSE timers[t]]

\* the event loop runs the callback of a setTimeout once its delay is over
TimersRun ==
    /\ WF_timers(TimerRuns("startReadyCheck"))
    /\ WF_timers(TimerRuns("npcConfirmOrder"))
    /\ WF_timers(TimerRuns("npcConfirmReady"))

NpcGame == Init /\ [][NpcGameNext]_vars /\ TimersRun

NpcRoom == HasRoom /\ Room.npcId # "none"

\* decideOrder has just sent ORDER_DECISION_RESULT
OrderResultSent == NpcRoom /\ io.from = "timer" /\ HasFrame("ORDER_DECISION_RESULT")

\* startReadyCheck has just sent READY_CHECK
ReadyCheckSent == NpcRoom /\ io.from = "timer" /\ HasFrame("READY_CHECK")

\* the AI's confirmations are recorded
NpcOrderConfirmed == NpcRoom /\ Room.npcId \in Room.orderDecisionState.confirmations
NpcReadyConfirmed == NpcRoom /\ Room.npcId \in Room.readyConfirmations

\* READY_CHECK has been sent for the confirmed order and the game has not started
ReadyCheckOpen ==
    /\ NpcRoom
    /\ Room.gameState.phase = "deciding_order"
    /\ Cardinality(Room.orderDecisionState.confirmations) = 2
    /\ timers["startReadyCheck"] = 0

\* the client has confirmed the order and has answered READY_CHECK
HumanConfirmed ==
    /\ ReadyCheckOpen
    /\ HostId \in Room.orderDecisionState.confirmations
    /\ HostId \in Room.readyConfirmations

\* GAME_STARTED has just been sent and the first turn has begun
FirstTurnBegun ==
    /\ NpcRoom
    /\ HasFrame("GAME_STARTED")
    /\ Room.gameState.phase = "playing"
    /\ Room.gameState.round = 1
    /\ Len(Room.gameState.players[Room.gameState.currentPlayer + 1].hand) = HandSize + 1

\* C28: in a room with an AI seat the AI's order confirmation is eventually
\* recorded after ORDER_DECISION_RESULT and its ready confirmation after
\* READY_CHECK, with no frame of a client; once the client has confirmed the
\* order and answered READY_CHECK, GAME_STARTED is eventually sent and the
\* first turn begins
C28_AiConfirmsByItself ==
    /\ OrderResultSent ~> NpcOrderConfirmed
    /\ ReadyCheckSent ~> NpcReadyConfirmed
    /\ HumanConfirmed ~> FirstTurnBegun

\* the client had answered READY_CHECK first, and the AI's own ready
\* confirmation has started the game
C28_Witness ==
    /\ FirstTurnBegun
    /\ io.from = "timer"
    /\ HasFrame("READY_STATUS")
    /\ Room.readyConfirmations = {HostId, Room.npcId}

(***************************************************************************)
(* C29: a room restored from its snapshot                                  *)
(***************************************************************************)
\* REDIS_URL is set and the store is empty
RehydrateInit ==
    /\ gameRooms = <<>>
    /\ timers = NoTimers
    /\ io = NoIo
    /\ deviated = FALSE
    /\ conns = [p \in PlayerIds |-> NoConn]
    /\ awaiting = {}
    /\ unregistered = NoRoom
    /\ roomStore = [NoStore EXCEPT !.enabled = TRUE]

RehydrateNext ==
    \/ CreateRoom
    \/ CreateNpcRoom
    \/ Join
    \/ Rejoin
    \/ JoinResume
    \/ Restart
    \/ TimerStartOrderDecision
    \/ TimerDecideOrder
    \/ TimerStartReadyCheck
    \/ TimerStartNextRound
    \/ TimerNpcConfirmOrder
    \/ TimerNpcConfirmReady
    \/ TimerNpcAction
    \/ TimerNpcResponse
    \/ ConfirmOrderAnyTime
    \/ ReadyConfirmAnyTime
    \/ DefaultAction

Rehydrate == RehydrateInit /\ [][RehydrateNext]_vars

\* a JOIN_ROOM completes for a room that the registry did not hold and the
\* store did
JoinRehydrates ==
    /\ ~HasRoom
    /\ roomStore.snapshot # NoSnapshot
    /\ HasRoom'
    /\ io'.from \in awaiting

C29_Step ==
    JoinRehydrates =>
        /\ Room'.gameState = roomStore.snapshot.gameState
        /\ roomStore.snapshot.npcId # "none" => SeatOf(Room', roomStore.snapshot.npcId) # 0

\* C29: when JOIN_ROOM names a room that is absent from the registry and
\* present in the snapshot store, then after the join the registered room's
\* gameState equals the gameState of the snapshot, and the AI seat, if the
\* room had one, is seated again
C29_RehydrationPreservesGame == [][C29_Step]_vars


(***************************************************************************)
(* C30: a reached threshold ends the game                                  *)
(***************************************************************************)
\* the players of gs that have reached a threshold of victory
Reached(gs) == ReachedCharm(gs) \cup ReachedTokens(gs)

\* determineWinner leaves by `return null` of its charm branch, of its
\* geisha branch
EqualCharmBranch(gs) ==
    /\ ReachedCharm(gs) # {}
    /\ gs.players[1].score.charm = gs.players[2].score.charm
EqualTokensBranch(gs) ==
    /\ ReachedCharm(gs) = {}
    /\ ReachedTokens(gs) # {}
    /\ gs.players[1].score.tokens = gs.players[2].score.tokens

\* C30 as it is worded: at a round resolution, every player with charm >= 11
\* or with 4 geisha or more is the winner that determineWinner returns
C30_ThresholdPlayerWins ==
    io.from = "resolveRound" =>
        \A i \in Reached(Room.gameState) :
            Room.gameState.winner = Room.gameState.players[i].id

\* C30: at a round resolution in which some player has charm >= 11 or 4
\* geisha or more, determineWinner returns a player, never null, and that
\* player has reached a threshold; the branches of equal charm and of equal
\* geisha counts that return no winner are not taken
C30_ThresholdEndsGame ==
    io.from = "resolveRound" /\ Reached(Room.gameState) # {} =>
        LET gs == Room.gameState
        IN /\ gs.winner # "none"
           /\ \E i \in Reached(gs) : gs.winner = gs.players[i].id
           /\ gs.phase = "ended"
           /\ ~EqualCharmBranch(gs)
           /\ ~EqualTokensBranch(gs)

\* a round is resolved in which nobody has 11 charm and one player holds
\* four geisha: that player is the winner and the game is over
C30_Witness ==
    /\ io.from = "resolveRound"
    /\ ReachedCharm(Room.gameState) = {}
    /\ \E i \in ReachedTokens(Room.gameState) :
          /\ Room.gameState.winner = Room.gameState.players[i].id
          /\ Room.gameState.phase = "ended"


(***************************************************************************)
(* C31: the hands within a round                                           *)
(***************************************************************************)
\* the cards each action takes from the hand
CardRequirement ==
    "secret" :> 1 @@ "trade-off" :> 2 @@ "gift" :> 3 @@ "competition" :> 4

\* the number of unused tokens of player, and the cards they ask for
UnusedCount(player) == Cardinality({t \in TokenTypes : ~player.actionTokens[t]})
UnusedRequirement(player) ==
    SumSeq([i \in DOMAIN ACTION_SEQUENCE |->
        IF player.actionTokens[ACTION_SEQUENCE[i]] THEN 0
        ELSE CardRequirement[ACTION_SEQUENCE[i]]])

\* the current player has drawn and has not acted yet
TurnBegun ==
    /\ InGame
    /\ Room.gameState.phase = "playing"
    /\ Room.gameState.pendingInteraction = NoPending
    /\ CurrentPlayerId(Room.gameState) # "none"

CurrentPlayer == Room.gameState.players[Room.gameState.currentPlayer + 1]

\* the draws of the round that are still to come
DrawsToCome(gs) == SumSeq([i \in DOMAIN gs.players |-> UnusedCount(gs.players[i])]) - 1

\* the round is over: resolveRound has run and the next deal has not
AtResolution == InGame /\ Room.gameState.phase \in {"resolution", "ended"}

LegalPlays(room, playerId) ==
    {a \in Plays(HandOf(room, playerId)) :
        ~handleGameAction(Ctx(room, NoTimers), playerId, a).rej}
LegalResponses(room, playerId) ==
    {a \in Responses(room.gameState.pendingInteraction) :
        ~handleGameAction(Ctx(room, NoTimers), playerId, a).rej}

\* GAME_ACTION on a bound connection: the client's first legal play, whether
\* or not a client has left
PlayOn ==
    /\ HasRoom
    /\ awaiting = {}
    /\ \E p \in PlayerIds :
        /\ conns[p].bound
        /\ \E action \in DefaultInputs(Room, p) :
            /\ Commit(handleGameAction(Ctx(Room, timers), p, action), p, action)
            /\ UNCHANGED <<deviated, conns, awaiting, unregistered>>

\* two clients play their first legal play; one of them leaves the room once
\* and joins it again, and the play goes on
InterruptedNext ==
    \/ CreateRoom
    \/ Join
    \/ LeaveRoom
    \/ TimerStartOrderDecision
    \/ TimerDecideOrder
    \/ TimerStartReadyCheck
    \/ TimerStartNextRound
    \/ ConfirmOrderAnyTime
    \/ ReadyConfirmAnyTime
    \/ PlayOn

Interrupted == Init /\ [][InterruptedNext]_vars

\* an interaction waits for its target
PendingOpen ==
    /\ InGame
    /\ Room.gameState.phase = "playing"
    /\ Room.gameState.pendingInteraction # NoPending

BothSeated == HasRoom /\ \A p \in PlayerIds : SeatOf(Room, p) # 0

\* C32: with both clients seated, in every playing state with no pending
\* interaction the current player has an unused token and a legal action for
\* it, and in every state with a pending interaction the target has a legal
\* RESOLVE, so that the round can go on to its resolution
C32_RoundCannotDeadlock ==
    BothSeated =>
        /\ TurnBegun =>
              /\ HasUnusedToken(CurrentPlayer)
              /\ LegalPlays(Room, CurrentPlayer.id) # {}
        /\ PendingOpen =>
              LegalResponses(Room, Room.gameState.pendingInteraction.targetPlayerId) # {}


(***************************************************************************)
(* C33: the cards of a round, the pending interaction counted              *)
(***************************************************************************)
\* the cards the pending interaction holds
HeldCards(gs) ==
    IF gs.pendingInteraction = NoPending THEN <<>>
    ELSE gs.pendingInteraction.offeredCards \o Flat(gs.pendingInteraction.groups)

\* every card of the deck is on exactly one pile or in the pending interaction
Partitioned(gs) ==
    LET all == ListedPiles(gs) \o HeldCards(gs)
    IN /\ CardIds(all) = DeckIds
       /\ \A id \in DeckIds : CountId(all, id) = 1

\* the step answers a competition with an index that is not a number
IndexIsString ==
    /\ io'.msg.type = "RESOLVE_COMPETITION"
    /\ ~io'.msg.chosenGroupIndex.num

\* the cards were partitioned before a step that carried out a GAME_ACTION
\* whose chosenGroupIndex, if any, is a number; or the step has dealt a round
C33_Step ==
    /\ (Dealt' /\ (~Dealt \/ HasFrame("DEAL_ANIMATION")')) => Partitioned(Room'.gameState)
    /\ (/\ Dealt /\ Dealt'
        /\ Partitioned(Room.gameState)
        /\ io'.msg # NoAction
        /\ ~IndexIsString) => Partitioned(Room'.gameState)

\* C33: counting the cards held in pendingInteraction, drawPile, removedCard,
\* the four piles of each player and the pending interaction's cards
\* partition the 21 cards of the round, from the deal on and after every
\* accepted action, for every chosenCardId among the offered cards and every
\* chosenGroupIndex in {0, 1}
C33_PendingCardsCounted == [][C33_Step]_vars

\* a competition has been answered with the number 1: each group is on the
\* pile of one player and no card is lost
C33_Witness ==
    /\ Dealt
    /\ Partitioned(Room.gameState)
    /\ io.msg.type = "RESOLVE_COMPETITION"
    /\ io.msg.chosenGroupIndex = [num |-> TRUE, val |-> 1]
    /\ \E i \in DOMAIN Room.gameState.players :
          Len(Room.gameState.players[i].playedCards) > 0


(***************************************************************************)
(* C34: the JSON value of chosenGroupIndex                                 *)
(***************************************************************************)
\* C34: whenever the server accepts a RESOLVE_COMPETITION, whether
\* chosenGroupIndex is the number 0 or 1 or the string "0" or "1", the target
\* gets the group the index selects and the initiator gets the other group:
\* no group goes to both players and no group is dropped
C34_Step ==
    (InGame /\ io'.msg.type = "RESOLVE_COMPETITION") =>
        LET gs == Room.gameState
            gs2 == Room'.gameState
            pending == gs.pendingInteraction
            a == pending.initiatorId
            b == io'.from
            index == io'.msg.chosenGroupIndex.val
        IN /\ index \in {0, 1}
           /\ IsPrefix(PlayerById(gs, b).playedCards \o pending.groups[index + 1],
                       PlayerById(gs2, b).playedCards)
           /\ IsPrefix(PlayerById(gs, a).playedCards \o pending.groups[2 - index],
                       PlayerById(gs2, a).playedCards)
           /\ \A g \in DOMAIN pending.groups : \A k \in DOMAIN pending.groups[g] :
                 CountId(ListedPiles(gs2), pending.groups[g][k].id) = 1

C34_EitherJsonIndexSplitsGroups == [][C34_Step]_vars


(***************************************************************************)
(* C35: the action the AI builds at every tier                             *)
(***************************************************************************)
\* cards.sort((a, b) => a.key - b.key): ascending, equal keys keep their order
RECURSIVE SortAscending(_)
SortAscending(entries) ==
    IF entries = <<>> THEN <<>>
    ELSE LET first == Head(entries)
             rest == SortAscending(Tail(entries))
         IN SelectSeq(rest, LAMBDA e : e.key < first.key)
            \o <<first>>
            \o SelectSeq(rest, LAMBDA e : e.key >= first.key)

Unkeyed(entries) == Array([i \in DOMAIN entries |-> entries[i].card])

\* array.slice(0, n)
Slice(s, n) == SubSeq(s, 1, IF Len(s) < n THEN Len(s) ELSE n)

IdsOf(cards) == Array([i \in DOMAIN cards |-> cards[i].id])

GeishaIds(cards) == Array([i \in DOMAIN cards |-> cards[i].geishaId])

RECURSIVE SumOver(_, _)
SumOver(S, f) ==
    IF S = {} THEN 0
    ELSE LET x == CHOOSE y \in S : TRUE IN f[x] + SumOver(S \ {x}, f)

getGeishaCharmPoints(gs, geishaId) ==
    LET found == {i \in DOMAIN gs.geishas : gs.geishas[i].id = geishaId}
    IN IF found = {} THEN 0
       ELSE gs.geishas[CHOOSE i \in found : \A j \in found : i <= j].charmPoints

getCardValue(gs, card) == getGeishaCharmPoints(gs, card.geishaId)

evaluateSnapshot(snapshot) ==
    LET npcScore == SumOver(DOMAIN snapshot,
                       [id \in DOMAIN snapshot |->
                           snapshot[id].charm * 2 + (snapshot[id].npc - snapshot[id].opp) * 3])
        oppScore == SumOver(DOMAIN snapshot,
                       [id \in DOMAIN snapshot |->
                           snapshot[id].charm * 2 - (snapshot[id].npc - snapshot[id].opp) * 3])
    IN npcScore - oppScore

applyCardsToSnapshot(snapshot, geishaIdList, isNpc) ==
    [id \in DOMAIN snapshot |->
        [npc |-> snapshot[id].npc
                   + (IF isNpc
                      THEN Cardinality({i \in DOMAIN geishaIdList : geishaIdList[i] = id})
                      ELSE 0),
         opp |-> snapshot[id].opp
                   + (IF isNpc THEN 0
                      ELSE Cardinality({i \in DOMAIN geishaIdList : geishaIdList[i] = id})),
         charm |-> snapshot[id].charm]]

Least(a, b) == IF a <= b THEN a ELSE b

\* Math.min(...values) of one value or more
RECURSIVE MinOf(_)
MinOf(values) ==
    IF Len(values) = 1 THEN values[1] ELSE Least(Head(values), MinOf(Tail(values)))

\* let best; let bestScore = -Infinity; scores.forEach: if (score > bestScore)
\* the score and its index are kept.  The index kept after the scores from
\* i on, best being the index kept so far (0: none)
RECURSIVE FirstLargest(_, _, _)
FirstLargest(scores, i, best) ==
    IF i > Len(scores) THEN best
    ELSE FirstLargest(scores, i + 1,
                      IF best = 0 \/ scores[i] > scores[best] THEN i ELSE best)

\* the outcome for the AI of offering combo when the opponent takes chosen:
\* the AI gets the cards of combo with another id
GiftOutcome(snapshot, combo, chosen) ==
    evaluateSnapshot(
        applyCardsToSnapshot(
            applyCardsToSnapshot(snapshot, <<chosen.geishaId>>, FALSE),
            GeishaIds(SelectSeq(combo, LAMBDA card : card.id # chosen.id)),
            TRUE))

\* the worst outcome for the AI of offering combo
GiftWorst(snapshot, combo) ==
    MinOf(Array([i \in DOMAIN combo |-> GiftOutcome(snapshot, combo, combo[i])]))

\* the positions i < j < k of n cards, in the order of the three loops
Combos(n) ==
    SelectSeq(Flat(Array([i \in 1..n |->
                  Flat(Array([j \in 1..n |-> Array([k \in 1..n |-> <<i, j, k>>])]))])),
              LAMBDA t : t[1] < t[2] /\ t[2] < t[3])

\* the cards with the utility they have for the AI
UtilityKeys(snapshot, hand) ==
    Array([i \in DOMAIN hand |->
              [card |-> hand[i], key |-> getCardUtility(snapshot, hand[i].geishaId, TRUE)]])

\* the comparator's npcValue - oppValue * 0.6 is compared as five times its value
TradeOffKeys(snapshot, hand) ==
    Array([i \in DOMAIN hand |->
              [card |-> hand[i],
               key |-> 5 * getCardUtility(snapshot, hand[i].geishaId, TRUE)
                       - 3 * getCardUtility(snapshot, hand[i].geishaId, FALSE)]])

\* a faulty variant: the AI gives up the same card twice
pickTradeOffCards_sameTwice(snapshot, hand) ==
    Slice(Unkeyed(SortAscending(TradeOffKeys(snapshot, hand))), 1)
    \o Slice(Unkeyed(SortAscending(TradeOffKeys(snapshot, hand))), 1)

pickTradeOffCards(snapshot, hand) ==
    Slice(Unkeyed(SortAscending(TradeOffKeys(snapshot, hand))), 2)

\* the cards at the positions of the first combination whose worst outcome is
\* the largest
BestCombo(snapshot, cards, combos) ==
    LET t == combos[FirstLargest(
                 Array([i \in DOMAIN combos |->
                     GiftWorst(snapshot,
                               <<cards[combos[i][1]], cards[combos[i][2]], cards[combos[i][3]]>>)]),
                 1, 0)]
    IN <<cards[t[1]], cards[t[2]], cards[t[3]]>>

pickGiftCards(snapshot, cards) ==
    IF Len(cards) < 3 THEN Slice(cards, 3)
    ELSE BestCombo(snapshot, cards, Combos(Len(cards)))

pickCompetitionCards(snapshot, hand) ==
    Slice(Unkeyed(SortDescending(UtilityKeys(snapshot, hand))), 4)

\* new Map(cards.map(card => [card.id, card.geishaId]))
IdToGeisha(cards) ==
    [x \in {cards[i].id : i \in DOMAIN cards} |->
        cards[CHOOSE i \in DOMAIN cards :
                 cards[i].id = x /\ \A j \in DOMAIN cards : cards[j].id = x => j <= i].geishaId]

\* the worst outcome for the AI of offering the two groups of card ids
CompetitionWorst(snapshot, g1, g2, idToGeisha) ==
    Least(evaluateSnapshot(applyCardsToSnapshot(snapshot,
              Array([i \in DOMAIN g1 |-> idToGeisha[g1[i]]]), FALSE)),
          evaluateSnapshot(applyCardsToSnapshot(snapshot,
              Array([i \in DOMAIN g2 |-> idToGeisha[g2[i]]]), FALSE)))

\* the three ways to pair the four cards sorted by value
GroupOptions(ids) ==
    << <<<<ids[1], ids[4]>>, <<ids[2], ids[3]>> >>,
       <<<<ids[1], ids[3]>>, <<ids[2], ids[4]>> >>,
       <<<<ids[1], ids[2]>>, <<ids[3], ids[4]>> >> >>

\* the first option whose worst outcome is the largest
BestOption(snapshot, groupOptions, idToGeisha) ==
    groupOptions[FirstLargest(
        Array([o \in DOMAIN groupOptions |->
                  CompetitionWorst(snapshot, groupOptions[o][1], groupOptions[o][2],
                                   idToGeisha)]),
        1, 0)]

\* buildNpcCompetitionGroups once the cards are sorted by value
GroupsOfSorted(snapshot, sorted) ==
    IF Len(sorted) < 4
    THEN SelectSeq(<<IdsOf(Slice(sorted, 2)), IdsOf(SubSeq(sorted, 3, Len(sorted)))>>,
                   LAMBDA group : Len(group) > 0)
    ELSE BestOption(snapshot, GroupOptions(IdsOf(sorted)), IdToGeisha(sorted))

buildNpcCompetitionGroups(gs, snapshot, cards) ==
    GroupsOfSorted(snapshot,
        Unkeyed(SortDescending(Array([i \in DOMAIN cards |->
                    [card |-> cards[i], key |-> getCardValue(gs, cards[i])]]))))

\* a score of evaluateNpcAction: finite is FALSE for -Infinity
Score(value) == [finite |-> TRUE, value |-> value]
MinusInfinity == [finite |-> FALSE, value |-> 0]

\* the score of 'secret': sorted is the hand by utility, the largest first
ScoreSecret(snapshot, sorted) ==
    IF sorted = <<>> THEN MinusInfinity
    ELSE Score(evaluateSnapshot(applyCardsToSnapshot(snapshot, <<sorted[1].geishaId>>, TRUE)))

ScoreTradeOff(snapshot, discard) ==
    Score(evaluateSnapshot(snapshot)
          - SumSeq(Array([i \in DOMAIN discard |->
                       getCardUtility(snapshot, discard[i].geishaId, TRUE)])))

ScoreGift(snapshot, offered) ==
    IF Len(offered) < 3 THEN MinusInfinity ELSE Score(GiftWorst(snapshot, offered))

\* the score of 'competition': groups is the result of buildNpcCompetitionGroups
ScoreOfGroups(snapshot, groups, idToGeisha) ==
    Score(CompetitionWorst(snapshot, groups[1], groups[2], idToGeisha))

ScoreCompetition(gs, snapshot, picked) ==
    IF Len(picked) < 4 THEN MinusInfinity
    ELSE ScoreOfGroups(snapshot, buildNpcCompetitionGroups(gs, snapshot, picked),
                       IdToGeisha(picked))

evaluateNpcAction(gs, snapshot, hand, actionType) ==
    CASE actionType = "secret" ->
            ScoreSecret(snapshot, Unkeyed(SortDescending(UtilityKeys(snapshot, hand))))
      [] actionType = "trade-off" -> ScoreTradeOff(snapshot, pickTradeOffCards(snapshot, hand))
      [] actionType = "gift" -> ScoreGift(snapshot, pickGiftCards(snapshot, hand))
      [] actionType = "competition" ->
            ScoreCompetition(gs, snapshot, pickCompetitionCards(snapshot, hand))
      [] OTHER -> MinusInfinity

\* the first candidate whose score is the largest; "none" stands for null, the
\* result when no score is above -Infinity
BestOfScores(candidates, score) ==
    LET finite == SelectSeq(Array([i \in DOMAIN candidates |-> i]),
                            LAMBDA i : score[i].finite)
    IN IF finite = <<>> THEN "none"
       ELSE candidates[finite[FirstLargest(
                Array([i \in DOMAIN finite |-> score[finite[i]].value]), 1, 0)]]

pickBestNpcAction(gs, snapshot, hand, candidates) ==
    BestOfScores(candidates,
                 Array([i \in DOMAIN candidates |->
                           evaluateNpcAction(gs, snapshot, hand, candidates[i])]))

\* the ways to draw n of m positions one after the other without putting back
Draws(n, m) == {f \in [1..n -> 1..m] : \A i, j \in 1..n : i # j => f[i] # f[j]}

\* the results of pickRandomCards: count cards of the pool, each spliced out
\* at a random index
pickRandomCards(cards, count) ==
    {Array([i \in DOMAIN s |-> cards[s[i]]]) :
        s \in Draws(IF Len(cards) < count THEN Len(cards) ELSE count, Len(cards))}

\* the results of buildNpcRandomGroups: the cards shuffled, cut in two
buildNpcRandomGroups(cards) ==
    {<<IdsOf(Slice(pool, 2)), IdsOf(SubSeq(pool, 3, Len(Slice(pool, 4))))>> :
        pool \in pickRandomCards(cards, Len(cards))}

\* the group of higher score for the AI
HigherGroup(snapshot, groups) ==
    IF evaluateSnapshot(applyCardsToSnapshot(snapshot, GeishaIds(groups[1]), TRUE))
         >= evaluateSnapshot(applyCardsToSnapshot(snapshot, GeishaIds(groups[2]), TRUE))
    THEN 0 ELSE 1

\* the group the AI takes: rnd is Math.random() < 0.5; npcPlayer and opponent
\* are the positions of the two players, 0 for none
GroupPicked(room, groups, rnd, npcPlayer, opponent) ==
    IF Len(groups) # 2 THEN NoIndex
    ELSE IF room.npcDifficulty = "easy" THEN [num |-> TRUE, val |-> IF rnd THEN 0 ELSE 1]
    ELSE IF npcPlayer = 0 \/ opponent = 0 THEN [num |-> TRUE, val |-> 0]
    ELSE [num |-> TRUE,
          val |-> HigherGroup(buildGeishaCountSnapshot(room.gameState,
                                  room.gameState.players[npcPlayer],
                                  room.gameState.players[opponent]),
                              groups)]

\* the position of the opponent of playerId among the players of the game
getOpponentState(c, playerId) ==
    IF getOpponentId(c, playerId) = "none" THEN 0
    ELSE getPlayerState(c, getOpponentId(c, playerId))

pickNpcCompetitionGroup(room, groups, rnd) ==
    GroupPicked(room, groups, rnd,
                getPlayerState(Ctx(room, NoTimers), room.npcId),
                getOpponentState(Ctx(room, NoTimers), room.npcId))

\* the candidates of buildNpcAction: the unused tokens the hand suffices for
NpcCandidates(player) ==
    SelectSeq(ACTION_SEQUENCE,
              LAMBDA t : ~player.actionTokens[t] /\ Len(player.hand) >= CardRequirement[t])

\* the action types buildNpcAction chooses from; best is the result of
\* pickBestNpcAction
NpcActionTypes(tier, candidates, best) ==
    IF tier \in {"expert", "hell"}
    THEN (IF best = "none" THEN Range(candidates) ELSE {best})
    ELSE IF tier = "easy" THEN Range(candidates)
    ELSE IF "competition" \in Range(candidates) THEN {"competition"}
    ELSE IF "gift" \in Range(candidates) THEN {"gift"}
    ELSE IF "secret" \in Range(candidates) THEN {"secret"}
    ELSE {"trade-off"}

\* sortedByNpcValue[sortedByNpcValue.length - 1]
LastOf(sortedByNpcValue) == sortedByNpcValue[Len(sortedByNpcValue)]

\* the actions of type actionType that buildNpcAction can return
NpcActionsOfType(actionType, easy, gs, snapshot, hand) ==
    CASE actionType = "secret" ->
            {Action("PLAY_SECRET", card.id, <<>>, <<>>, NoIndex) :
                card \in IF easy THEN Range(hand)
                         ELSE {LastOf(Unkeyed(SortAscending(UtilityKeys(snapshot, hand))))}}
      [] actionType = "trade-off" ->
            {Action("PLAY_TRADE_OFF", 0, IdsOf(selected), <<>>, NoIndex) :
                selected \in IF easy THEN pickRandomCards(hand, 2)
                             ELSE {pickTradeOffCards(snapshot, hand)}}
      [] actionType = "gift" ->
            {Action("INITIATE_GIFT", 0, IdsOf(selected), <<>>, NoIndex) :
                selected \in IF easy THEN pickRandomCards(hand, 3)
                             ELSE {pickGiftCards(snapshot, hand)}}
      [] actionType = "competition" ->
            {Action("INITIATE_COMPETITION", 0, <<>>, groups, NoIndex) :
                groups \in IF easy
                           THEN UNION {buildNpcRandomGroups(picked) :
                                          picked \in pickRandomCards(hand, 4)}
                           ELSE {buildNpcCompetitionGroups(gs, snapshot,
                                     pickCompetitionCards(snapshot, hand))}}
      [] OTHER -> {}

\* buildNpcAction from the candidates on
NpcActionsOfCandidates(tier, gs, snapshot, hand, candidates) ==
    IF candidates = <<>> THEN {}
    ELSE UNION {NpcActionsOfType(actionType, tier = "easy", gs, snapshot, hand) :
                   actionType \in NpcActionTypes(tier, candidates,
                                      pickBestNpcAction(gs, snapshot, hand, candidates))}

\* buildNpcAction for the AI at position k and its opponent at position o
NpcActionsOfSeats(room, k, o) ==
    IF k = 0 \/ o = 0 THEN {}
    ELSE NpcActionsOfCandidates(room.npcDifficulty, room.gameState,
             buildGeishaCountSnapshot(room.gameState, room.gameState.players[k],
                                      room.gameState.players[o]),
             room.gameState.players[k].hand,
             NpcCandidates(room.gameState.players[k]))

\* the results of buildNpcAction at the tier of the room, one for each outcome
\* of Math.random; {} stands for null
NpcActionsBuilt(room) ==
    NpcActionsOfSeats(room, getPlayerState(Ctx(room, NoTimers), room.npcId),
                      getOpponentState(Ctx(room, NoTimers), room.npcId))

\* {NoAction} for null
OrNoAction(built) == IF built = {} THEN {NoAction} ELSE built

\* CREATE_ROOM with mode 'npc' and payload.aiDifficulty
CreateTierRoom ==
    /\ ~HasRoom
    /\ \E aiDifficulty \in Difficulties \cup {"undefined"} :
          LET c == handleCreateRoom(timers, HostId, "npc")
          IN Commit([c EXCEPT !.room.npcDifficulty = normalizeNpcDifficulty(aiDifficulty)],
                    HostId, NoAction)
    /\ Bind(HostId)
    /\ UNCHANGED <<deviated, awaiting, unregistered>>

\* the results of buildNpcAction that are explored: every one above the easy
\* tier; at the easy tier the one that is the first play the rules allow
TierActionInputs(room) ==
    IF ~NpcToPlay(room) THEN {NoAction}
    ELSE IF room.npcDifficulty = "easy" THEN NpcDefault(room, NpcActionInputs(room))
    ELSE OrNoAction(NpcActionsBuilt(room))

\* the answers of pickNpcGiftCard and pickNpcCompetitionGroup that are explored
TierResponseInputs(room) ==
    LET pending == room.gameState.pendingInteraction
        picked == IF room.gameState.phase = "null" \/ room.npcId = "none" THEN {NoAction}
                  ELSE IF pending.targetPlayerId # room.npcId THEN {NoAction}
                  ELSE IF pending.type = "COMPETITION_SELECTION"
                  THEN {Action("RESOLVE_COMPETITION", 0, <<>>, <<>>,
                               pickNpcCompetitionGroup(room, pending.groups, rnd)) :
                           rnd \in BOOLEAN}
                  ELSE NpcResponseInputs(room)
    IN IF room.npcDifficulty = "easy" THEN NpcMoves(room, picked, deviated) ELSE picked

Deviates(room, inputs, action) ==
    room.npcDifficulty = "easy" /\ action \notin NpcDefault(room, inputs)

TimerNpcActionAtTier ==
    /\ FireTimer("npcActionTimer")
    /\ \E action \in TierActionInputs(Room) :
        /\ Commit(performNpcAction(Fired("npcActionTimer"), action), "timer", action)
        /\ deviated' = (deviated \/ Deviates(Room, NpcActionInputs(Room), action))
        /\ UNCHANGED <<conns, awaiting, unregistered>>

TimerNpcResponseAtTier ==
    /\ FireTimer("npcResponseTimer")
    /\ \E action \in TierResponseInputs(Room) :
        /\ Commit(performNpcResponse(Fired("npcResponseTimer"), action), "timer", action)
        /\ deviated' = (deviated \/ Deviates(Room, NpcResponseInputs(Room), action))
        /\ UNCHANGED <<conns, awaiting, unregistered>>

\* a room with an AI seat of any tier whose client stays connected
TierGameNext ==
    \/ CreateTierRoom
    \/ TimerStartOrderDecision
    \/ TimerDecideOrder
    \/ TimerStartReadyCheck
    \/ TimerStartNextRound
    \/ TimerNpcConfirmOrder
    \/ TimerNpcConfirmReady
    \/ TimerNpcActionAtTier
    \/ TimerNpcResponseAtTier
    \/ ConfirmOrderAnyTime
    \/ ReadyConfirmAnyTime
    \/ DefaultAction
    \/ ActionAfterEnd

TierGame == Init /\ [][TierGameNext]_vars

\* the card ids an action names
NamedIds(a) ==
    IF a.type = "PLAY_SECRET" THEN <<a.cardId>>
    ELSE IF a.type = "INITIATE_COMPETITION" THEN Flat(a.groups)
    ELSE a.cardIds

\* the rule engine accepts action a of the AI in room
AcceptedBuild(room, a) ==
    LET c == handleAction(Ctx(room, NoTimers), room.npcId, a)
        player == PlayerById(room.gameState, room.npcId)
        ids == NamedIds(a)
    IN /\ a.type \in {TypeOfToken(t) : t \in TokenTypes}
       /\ ~c.rej
       /\ ~player.actionTokens[TokenOfType(a.type)]
       /\ PlayerById(c.room.gameState, room.npcId).actionTokens[TokenOfType(a.type)]
       /\ Len(ids) = CardRequirement[TokenOfType(a.type)]
       /\ \A i, j \in DOMAIN ids : i # j => ids[i] # ids[j]
       /\ \A i \in DOMAIN ids : \E h \in DOMAIN player.hand : player.hand[h].id = ids[i]
       /\ a.type = "INITIATE_COMPETITION" =>
             /\ Len(a.groups) = 2
             /\ Len(a.groups[1]) = 2
             /\ Len(a.groups[2]) = 2
             /\ Range(a.groups[1]) \cap Range(a.groups[2]) = {}

\* C35: whenever it is the AI's turn, at the tier of the room, every action
\* buildNpcAction can build is accepted by the rule engine: its token is
\* unused, the number of cards is the one of the action, the card ids are
\* distinct ids of the AI's hand, and a competition is two disjoint groups of
\* two cards
C35_BuiltActionAccepted ==
    (HasRoom /\ NpcToPlay(Room)) =>
        \A a \in NpcActionsBuilt(Room) : AcceptedBuild(Room, a)

\* the AI at tier hell has opened a competition it built
C35_Witness ==
    /\ HasRoom
    /\ Room.npcDifficulty = "hell"
    /\ io.from = "timer"
    /\ ~io.rej
    /\ io.msg.type = "INITIATE_COMPETITION"
    /\ Room.gameState.pendingInteraction.type = "COMPETITION_SELECTION"

(***************************************************************************)
(* C36: a rematch and the game in progress                                 *)
(***************************************************************************)
\* the REMATCH_REQUEST frames one client sends in a run
MaxRematchRequests == 1

clearNpcTimers(c) ==
    [c EXCEPT !.timers["npcActionTimer"] = 0, !.timers["npcResponseTimer"] = 0]

\* perm is the shuffle of the deck that startOrderDecision deals
startRematch(c, perm) ==
    LET c1 == clearNpcTimers(c)
        c2 == [c1 EXCEPT
                  !.room.rematchConfirmations = {},
                  !.room.lastRoundStarterId = "none",
                  !.room.baseGeishas = createRandomizedGeishas,
                  !.room.orderDecisionState =
                      [isDeciding |-> FALSE, result |-> NoResult, confirmations |-> {}]]
    IN startOrderDecision(c2, perm)

requestRematch(c, playerId, perm) ==
    IF ~validatePlayerInRoom(c, playerId) THEN c
    ELSE LET c1 == [c EXCEPT !.room.rematchConfirmations =
                       @ \cup {playerId}
                         \cup (IF c.room.npcId # "none" THEN {c.room.npcId} ELSE {})]
         IN IF Cardinality(c1.room.rematchConfirmations) >= 2 THEN startRematch(c1, perm)
            ELSE broadcast(c1, "REMATCH_REQUESTED", {})

\* REMATCH_REQUEST on a bound connection, at any time
RematchRequest ==
    /\ HasRoom
    /\ \E p \in PlayerIds :
        /\ conns[p].bound
        /\ conns[p].asked < MaxRematchRequests
        /\ \E perm \in Shuffles :
              Commit(requestRematch(Ctx(Room, timers), p, perm), p, NoAction)
        /\ conns' = [conns EXCEPT ![p].asked = @ + 1]
    /\ UNCHANGED <<deviated, awaiting, unregistered>>

\* two clients, or one client and the AI, that play their first legal play;
\* the clients ask for a rematch at any time
RematchNext ==
    \/ CreateRoom
    \/ CreateNpcRoom
    \/ Join
    \/ TimerStartOrderDecision
    \/ TimerDecideOrder
    \/ TimerStartReadyCheck
    \/ TimerStartNextRound
    \/ TimerNpcConfirmOrder
    \/ TimerNpcConfirmReady
    \/ TimerNpcActionAtTier
    \/ TimerNpcResponseAtTier
    \/ ConfirmOrderAnyTime
    \/ ReadyConfirmAnyTime
    \/ DefaultAction
    \/ RematchRequest

Rematch == Init /\ [][RematchNext]_vars

\* the step has handled a REMATCH_REQUEST
RematchAsked == \E p \in PlayerIds : conns'[p].asked > conns[p].asked

\* the step has handled a REMATCH_REQUEST that ran startRematch
RematchStarted == RematchAsked /\ HasFrame("ORDER_DECISION_START")'

\* the seats that count as having requested the rematch before startRematch
\* clears the set
Requested ==
    Room.rematchConfirmations \cup {io'.from}
      \cup (IF Room.npcId # "none" THEN {Room.npcId} ELSE {})

C36_Step ==
    (HasRoom /\ RematchAsked) =>
        /\ RematchStarted =>
              /\ Room.gameState.phase = "ended"
              /\ Range(SeatIds(Room)) \subseteq Requested
        /\ Room.gameState.phase \in {"deciding_order", "playing", "resolution"} =>
              Room'.gameState = Room.gameState

\* C36: startRematch runs only when the phase is ended and both seats have
\* requested the rematch, the AI seat counting by itself; a REMATCH_REQUEST
\* handled while the phase is deciding_order, playing or resolution leaves
\* hands, piles, tokens and geisha control as they are
C36_RematchOnlyAfterEnd == [][C36_Step]_vars

(***************************************************************************)
(* C37: the game a rematch starts                                          *)
(***************************************************************************)
\* round 1, no winner, no geisha controlled, scores 0, no token used
FreshGame(gs) ==
    /\ gs.round = 1
    /\ gs.winner = "none"
    /\ \A g \in DOMAIN gs.geishas : gs.geishas[g].controlledBy = "none"
    /\ \A i \in DOMAIN gs.players :
          /\ gs.players[i].score = [charm |-> 0, tokens |-> 0]
          /\ \A t \in TokenTypes : ~gs.players[i].actionTokens[t]

\* startRematch has run and its order decision is open or decided
RematchDeciding ==
    /\ HasRoom
    /\ \E p \in PlayerIds : conns[p].asked > 0
    /\ Room.rematchConfirmations = {}
    /\ Room.gameState.phase = "deciding_order"

\* the step is startRematch for a game that has ended, or decideOrder for
\* the game that startRematch has dealt
C37_Step ==
    /\ (HasRoom /\ RematchStarted /\ Room.gameState.phase = "ended") =>
          FreshGame(Room'.gameState)
    /\ (RematchDeciding /\ FreshGame(Room.gameState)
           /\ HasFrame("ORDER_DECISION_RESULT")') =>
          FreshGame(Room'.gameState)

\* C37: after startRematch and after the order decision that follows it the
\* game state has round 1, no winner, no geisha controlled, both scores at 0
\* and every token unused
C37_RematchStartsFreshGame == [][C37_Step]_vars

(***************************************************************************)
(* C38: the order decision and the seats                                   *)
(***************************************************************************)
\* ids are the two distinct ids of the seats of room
NamesTheSeats(room, ids) ==
    /\ Len(ids) = 2
    /\ ids[1] # ids[2]
    /\ Len(room.players) = 2
    /\ {ids[1], ids[2]} = Range(SeatIds(room))

\* an order decision is in progress from the setTimeout of the second join to
\* the callback of decideOrder
DecisionsInProgress == timers["startOrderDecision"] + timers["decideOrder"]

C38_Step ==
    HasRoom' =>
        /\ HasFrame("ORDER_DECISION_RESULT")' =>
              NamesTheSeats(Room', Room'.orderDecisionState.result)
        /\ HasFrame("GAME_STARTED")' =>
              NamesTheSeats(Room', Array([i \in DOMAIN Room'.gameState.players |->
                                             Room'.gameState.players[i].id]))
        /\ DecisionsInProgress' <= 1

\* C38: every ORDER_DECISION_RESULT that is broadcast and every game started
\* from it names the two distinct ids of the seats of the room as first and
\* second player, also when a client leaves or joins again during the delays
\* of the order decision; and at most one order decision is in progress
C38_ResultNamesTheSeats == [][C38_Step]_vars

(***************************************************************************)
(* C39: one GameRoom per room id                                           *)
(***************************************************************************)
\* the step is the part of handleJoinRoom after `await loadRoomSnapshot`
JoinResumed == Cardinality(awaiting') < Cardinality(awaiting)

\* the clients that have a seat in room
HumansSeated(room) == {p \in PlayerIds : SeatOf(room, p) # 0}

C39_Step ==
    (JoinResumed /\ HasRoom) =>
        /\ HasRoom'
        /\ HumansSeated(Room) \subseteq HumansSeated(Room')

\* C39: a JOIN_ROOM that has loaded the snapshot seats its client in the
\* GameRoom registered under the room id: when two JOIN_ROOM for the same
\* room id have both missed in memory and both loaded the snapshot, the
\* client seated by the first is still seated in the registered GameRoom
\* after the second
C39_JoinersShareRegisteredRoom == [][C39_Step]_vars

====
